---- MODULE Spec2Model ----
(***************************************************************************)
(* A model of golossus/di: the key/tag mini-language (definition.go), the  *)
(* definition registry (container_builder.go) and the resolution engine    *)
(* (container.go).                                                         *)
(*                                                                         *)
(* Strings of the program are sequences of one-character strings, so that  *)
(* parseKey is modelled by what its regular expression does.  A Go map is  *)
(* a TLA+ function; a *definition is the record it points to; sync.Mutex   *)
(* is the name of the goroutine that holds it (NoThread when free), and    *)
(* Lock() on a held mutex is a step that is not enabled, also when the     *)
(* holder is the caller itself: sync.Mutex is not reentrant.               *)
(***************************************************************************)
EXTENDS Integers, Sequences, FiniteSets, TLC

VARIABLES
    definitions,  \* containerBuilder.definitions : bare key -> definition
    providers,    \* containerBuilder.providers
    resolvers,    \* containerBuilder.resolvers
    resolved,     \* containerBuilder.resolved
    lock,         \* containerBuilder.lock : holder, or NoThread
    containers,   \* the containers GetContainer has returned, in order:
                  \*   [instances : key -> value, lock : holder]
    view,         \* per goroutine, the container made by unseal() for the
                  \* factories of its current call:
                  \*   [loading : Seq(key), lock : BOOLEAN (held), sealed]
    stack,        \* per goroutine, the call stack of frames
    outcome,      \* per goroutine, how its last top-level call ended
    spy,          \* factory id -> number of invocations (the tests' spy)
    built,        \* container -> key -> factory invocations by construct
    ran,          \* callback id -> number of Provide / Resolve invocations
    history,      \* ghost: facts about the run that the properties read
    ncalls        \* number of top-level calls issued so far

vars == <<definitions, providers, resolvers, resolved, lock, containers, view,
          stack, outcome, spy, built, ran, history, ncalls>>

-----------------------------------------------------------------------------
(* Bounds of the model.                                                    *)

\* goroutines that call the API concurrently
NumThreads == 2
\* top-level API calls issued in one behaviour, over all goroutines
MaxCalls == 3
\* containers GetContainer hands out where several are asked for
MaxContainers == 2
Threads == 1 .. NumThreads
NoThread == 0

-----------------------------------------------------------------------------
(* Strings.                                                                *)

EmptyMap == [x \in {} |-> <<>>]

Put(m, k, v) == (k :> v) @@ m

RECURSIVE TrimLeft(_)
TrimLeft(s) == IF s # <<>> /\ Head(s) = " " THEN TrimLeft(Tail(s)) ELSE s

RECURSIVE TrimRight(_)
TrimRight(s) ==
    IF s # <<>> /\ s[Len(s)] = " " THEN TrimRight(SubSeq(s, 1, Len(s) - 1)) ELSE s

\* A TrimSpace that removes at most one space at each end.
TrimSpaceOnce(s) ==
    LET l == IF s # <<>> /\ Head(s) = " " THEN Tail(s) ELSE s
    IN  IF l # <<>> /\ l[Len(l)] = " " THEN SubSeq(l, 1, Len(l) - 1) ELSE l

\* strings.TrimSpace
TrimSpace(s) == TrimRight(TrimLeft(s))

\* strings.HasPrefix(s, "#")
HasHashPrefix(s) == s # <<>> /\ Head(s) = "#"

\* reserved tags
TagShared == <<"s", "h", "a", "r", "e", "d">>
TagPrivate == <<"p", "r", "i", "v", "a", "t", "e">>
TagPriority == <<"p", "r", "i", "o", "r", "i", "t", "y">>
TagInject == <<"i", "n", "j", "e", "c", "t">>
TagValue == <<"v", "a", "l", "u", "e">>
TagAlias == <<"a", "l", "i", "a", "s">>
TagFactory == <<"f", "a", "c", "t", "o", "r", "y">>

kindTags == <<TagFactory, TagValue, TagAlias, TagInject>>

-----------------------------------------------------------------------------
(* definition.go: parseKey.                                                *)

\* The last index e >= p - 1 such that no character of raw[p .. e] is in stop:
\* the end of a greedy [^...]+ that starts at p.
RECURSIVE RunEnd(_, _, _)
RunEnd(raw, p, stop) ==
    IF p <= Len(raw) /\ raw[p] \notin stop THEN RunEnd(raw, p + 1, stop) ELSE p - 1

\* keyRex.FindAllStringSubmatch(raw, -1) for ^[^#]+|#([^#=]+)|=([^#]+) :
\* the successive leftmost matches, the first alternative that matches at a
\* position winning; each match is [full, g1, g2].
RECURSIVE FindAll(_, _)
FindAll(raw, p) ==
    IF p > Len(raw) THEN <<>>
    ELSE IF p = 1 /\ raw[1] # "#"
    THEN LET e == RunEnd(raw, 1, {"#"})
         IN  <<[full |-> SubSeq(raw, 1, e), g1 |-> <<>>, g2 |-> <<>>]>>
                 \o FindAll(raw, e + 1)
    ELSE IF raw[p] = "#" /\ RunEnd(raw, p + 1, {"#", "="}) > p
    THEN LET e == RunEnd(raw, p + 1, {"#", "="})
         IN  <<[full |-> SubSeq(raw, p, e), g1 |-> SubSeq(raw, p + 1, e), g2 |-> <<>>]>>
                 \o FindAll(raw, e + 1)
    ELSE IF raw[p] = "=" /\ RunEnd(raw, p + 1, {"#"}) > p
    THEN LET e == RunEnd(raw, p + 1, {"#"})
         IN  <<[full |-> SubSeq(raw, p, e), g1 |-> <<>>, g2 |-> SubSeq(raw, p + 1, e)]>>
                 \o FindAll(raw, e + 1)
    ELSE FindAll(raw, p + 1)

\* The loop of parseKey over matches[i .. ], with the key and tags so far.
RECURSIVE ParseLoop(_, _, _, _)
ParseLoop(matches, i, key, tags) ==
    IF i > Len(matches) THEN [key |-> key, tags |-> tags]
    ELSE IF HasHashPrefix(matches[i].full)
    THEN ParseLoop(matches, i + 1, key, Put(tags, TrimSpace(matches[i].g1), <<>>))
    ELSE IF i = 1
    THEN ParseLoop(matches, i + 1, TrimSpace(matches[i].full), tags)
    ELSE ParseLoop(matches, i + 1, key,
                   Put(tags, TrimSpace(matches[i - 1].g1), TrimSpace(matches[i].g2)))

parseKey(raw) == ParseLoop(FindAll(raw, 1), 1, <<>>, EmptyMap)

-----------------------------------------------------------------------------
(* definition.go: tags and newDefinition.                                  *)

\* mergeTags in which a later map overwrites the entries of an earlier one.
RECURSIVE mergeTagsLastWins(_)
mergeTagsLastWins(tagsList) ==
    IF tagsList = <<>> THEN EmptyMap
    ELSE mergeTagsLastWins(Tail(tagsList)) @@ Head(tagsList)

\* mergeTags: an entry of an earlier map is never overwritten by a later one.
RECURSIVE mergeTags(_)
mergeTags(tagsList) ==
    IF tagsList = <<>> THEN EmptyMap ELSE Head(tagsList) @@ mergeTags(Tail(tagsList))

\* The literals strconv.ParseBool accepts.
BoolTrue == {<<"1">>, <<"t">>, <<"T">>, <<"T", "R", "U", "E">>,
             <<"t", "r", "u", "e">>, <<"T", "r", "u", "e">>}
BoolFalse == {<<"0">>, <<"f">>, <<"F">>, <<"F", "A", "L", "S", "E">>,
              <<"f", "a", "l", "s", "e">>, <<"F", "a", "l", "s", "e">>}

\* parseBoolTag that takes no other literals than "true", "1", "false", "0".
parseBoolTagFourLiterals(tagName, tags) ==
    IF tagName \notin DOMAIN tags THEN [ok |-> TRUE, val |-> FALSE]
    ELSE IF tags[tagName] = <<>> THEN [ok |-> TRUE, val |-> TRUE]
    ELSE IF tags[tagName] \in {<<"t", "r", "u", "e">>, <<"1">>} THEN [ok |-> TRUE, val |-> TRUE]
    ELSE IF tags[tagName] \in {<<"f", "a", "l", "s", "e">>, <<"0">>}
    THEN [ok |-> TRUE, val |-> FALSE]
    ELSE [ok |-> FALSE, val |-> FALSE,
          err |-> <<"not a valid boolean", tagName, tags[tagName]>>]

\* parseBoolTag: [ok, val], and on failure the tag and the value of the error.
parseBoolTag(tagName, tags) ==
    IF tagName \notin DOMAIN tags THEN [ok |-> TRUE, val |-> FALSE]
    ELSE IF tags[tagName] = <<>> THEN [ok |-> TRUE, val |-> TRUE]
    ELSE IF tags[tagName] \in BoolTrue THEN [ok |-> TRUE, val |-> TRUE]
    ELSE IF tags[tagName] \in BoolFalse THEN [ok |-> TRUE, val |-> FALSE]
    ELSE [ok |-> FALSE, val |-> FALSE,
          err |-> <<"not a valid boolean", tagName, tags[tagName]>>]

Digits == <<"0", "1", "2", "3", "4", "5", "6", "7", "8", "9">>
DigitVal(c) == (CHOOSE i \in 1 .. 10 : Digits[i] = c) - 1
IsDigit(c) == \E i \in 1 .. 10 : Digits[i] = c

RECURSIVE DecVal(_, _)
DecVal(s, acc) == IF s = <<>> THEN acc ELSE DecVal(Tail(s), 10 * acc + DigitVal(Head(s)))

\* strconv.ParseInt(s, 10, 16): an optional sign and decimal digits, in the
\* range of int16.
ParseInt16(s) ==
    LET neg == s # <<>> /\ Head(s) = "-"
        signed == s # <<>> /\ Head(s) \in {"-", "+"}
        digs == IF signed THEN Tail(s) ELSE s
        n == IF neg THEN 0 - DecVal(digs, 0) ELSE DecVal(digs, 0)
    IN  IF digs = <<>> \/ \E i \in 1 .. Len(digs) : ~IsDigit(digs[i])
        THEN [ok |-> FALSE, val |-> 0]
        ELSE IF n < 0 - 32768 \/ n > 32767 THEN [ok |-> FALSE, val |-> 0]
        ELSE [ok |-> TRUE, val |-> n]

\* parseIntegerTag
parseIntegerTag(tagName, tags) ==
    IF tagName \notin DOMAIN tags THEN [ok |-> TRUE, val |-> 0]
    ELSE IF tags[tagName] = <<>> THEN [ok |-> TRUE, val |-> 0]
    ELSE IF ParseInt16(tags[tagName]).ok
    THEN [ok |-> TRUE, val |-> ParseInt16(tags[tagName]).val]
    ELSE [ok |-> FALSE, val |-> 0,
          err |-> <<"not a valid number", tagName, tags[tagName]>>]

\* selectKindTag that does not count the kind tags it finds.
selectKindTagFirstFound(tags) ==
    LET present == {i \in 1 .. Len(kindTags) : kindTags[i] \in DOMAIN tags}
        kindTag == IF present = {} THEN TagFactory
                   ELSE kindTags[CHOOSE i \in present : \A j \in present : j <= i]
    IN  [ok |-> TRUE, val |-> kindTag]

\* selectKindTag: the last kind tag of kindTags that is present, TagFactory
\* when none is; an error when more than one is present.
selectKindTag(tags) ==
    LET present == {i \in 1 .. Len(kindTags) : kindTags[i] \in DOMAIN tags}
        kindTag == IF present = {} THEN TagFactory
                   ELSE kindTags[CHOOSE i \in present : \A j \in present : j <= i]
    IN  IF Cardinality(present) > 1
        THEN [ok |-> FALSE, val |-> kindTag,
              err |-> <<"can't be used simultaneously", kindTag, kindTags>>]
        ELSE [ok |-> TRUE, val |-> kindTag]

\* definition.AliasOf == nil
NoDefinition == [nil |-> TRUE]

\* newDefinition that takes a value it cannot parse as the default of the
\* tag, where newDefinition returns the error.
newDefinitionDefaults(factory, tagsList) ==
    LET tags == mergeTags(tagsList)
        priority == parseIntegerTag(TagPriority, tags)
        shared == parseBoolTag(TagShared, tags)
        private == parseBoolTag(TagPrivate, tags)
        kind == selectKindTag(tags)
    IN  [ok |-> TRUE,
         def |-> [Factory |-> factory, Tags |-> tags, AliasOf |-> NoDefinition,
                  Priority |-> priority.val, Shared |-> shared.val,
                  Private |-> private.val, Kind |-> kind.val]]

\* newDefinition: [ok, def], or [ok, err]
newDefinition(factory, tagsList) ==
    LET tags == mergeTags(tagsList)
        priority == parseIntegerTag(TagPriority, tags)
        shared == parseBoolTag(TagShared, tags)
        private == parseBoolTag(TagPrivate, tags)
        kind == selectKindTag(tags)
    IN  IF ~priority.ok THEN [ok |-> FALSE, err |-> priority.err]
        ELSE IF ~shared.ok THEN [ok |-> FALSE, err |-> shared.err]
        ELSE IF ~private.ok THEN [ok |-> FALSE, err |-> private.err]
        ELSE IF ~kind.ok THEN [ok |-> FALSE, err |-> kind.err]
        ELSE [ok |-> TRUE,
              def |-> [Factory |-> factory, Tags |-> tags, AliasOf |-> NoDefinition,
                       Priority |-> priority.val, Shared |-> shared.val,
                       Private |-> private.val, Kind |-> kind.val]]

-----------------------------------------------------------------------------
(* container_builder.go: the registry, as operations on the definitions    *)
(* map.  Each returns [ok, defs] or [ok, err]; the guard on the resolved   *)
(* flag (panicIfResolved) is part of the actions below.                    *)

\* A factory is user code: [id, kind, body], body being the calls it makes on
\* the Container it is given, in order.  A call is [op |-> "Get", key],
\* [op |-> "GetTaggedBy", tag, values], [op |-> "panic"], or
\* [op |-> "TryGet", key]: a Get under a deferred recover().
Func(id, body) == [id |-> id, kind |-> "func", body |-> body]

\* SetValue's closure: func(_ Container) interface{} { return value }
ValueFactory(value) == [id |-> <<"value", value>>, kind |-> "value", body |-> <<>>]

HasDefinition(defs, key) == key \in DOMAIN defs

\* GetDefinition that makes up a definition for a missing key.
GetDefinitionOrDefault(defs, key) ==
    IF key \in DOMAIN defs THEN defs[key] ELSE newDefinition(Func(key, <<>>), <<>>).def

\* GetDefinition: the zero value of the map (a nil pointer) for a missing key
GetDefinition(defs, key) == IF key \in DOMAIN defs THEN defs[key] ELSE NoDefinition

\* setDefinition after its guard: parse the key, build the definition from the
\* tags given followed by the tags of the key, store it under the bare key.
setDefinition(defs, key, factory, tags) ==
    LET p == parseKey(key)
        d == newDefinition(factory, Append(tags, p.tags))
    IN  IF d.ok
        THEN [ok |-> TRUE, key |-> p.key, def |-> d.def, defs |-> Put(defs, p.key, d.def)]
        ELSE [ok |-> FALSE, err |-> Append(d.err, p.key)]

SetValue(defs, key, value, tags) ==
    setDefinition(defs, key, ValueFactory(value), Append(tags, TagValue :> <<>>))

SetFactory(defs, key, factory, tags) ==
    setDefinition(defs, key, factory, Append(tags, TagFactory :> <<>>))

Range(s) == {s[i] : i \in 1 .. Len(s)}

\* The orders in which a range over a map may visit the keys in S.
Orders(S) == {s \in [1 .. Cardinality(S) -> S] : Range(s) = S}

\* The keys GetTaggedKeys collects: those whose definition carries tag, with
\* one of the values when values are given.
TaggedSet(defs, tag, values) ==
    {k \in DOMAIN defs :
        /\ tag \in DOMAIN defs[k].Tags
        /\ \/ values = <<>>
           \/ \E i \in 1 .. Len(values) : values[i] = defs[k].Tags[tag]}

\* less of a sort that puts the lower priority first.
LowerFirst(defs, x, y) == defs[x].Priority < defs[y].Priority

\* The less function GetTaggedKeys gives to sort.SliceStable.
HigherFirst(defs, x, y) == defs[x].Priority > defs[y].Priority

\* x inserted in the sorted s behind every element it is not less than.
RECURSIVE InsertStable(_, _, _)
InsertStable(defs, s, x) ==
    IF s = <<>> THEN <<x>>
    ELSE IF HigherFirst(defs, x, s[Len(s)])
    THEN Append(InsertStable(defs, SubSeq(s, 1, Len(s) - 1), x), s[Len(s)])
    ELSE Append(s, x)

\* sort.SliceStable: elements that are not less than one another keep the
\* order they have in s.
RECURSIVE SliceStable(_, _)
SliceStable(defs, s) ==
    IF s = <<>> THEN <<>>
    ELSE InsertStable(defs, SliceStable(defs, SubSeq(s, 1, Len(s) - 1)), s[Len(s)])

\* The keys of order that GetTaggedKeys appends to tagged, in that order.
Collect(defs, tag, values, order) ==
    LET t == TaggedSet(defs, tag, values)
        F[i \in 0 .. Len(order)] ==
            IF i = 0 THEN <<>>
            ELSE IF order[i] \in t THEN Append(F[i - 1], order[i]) ELSE F[i - 1]
    IN  F[Len(order)]

\* GetTaggedKeys: the keys are collected in the iteration order of a Go map,
\* which the language leaves unspecified, and then sorted by sort.SliceStable
\* on Priority, higher first.  The set of the results it can return.
GetTaggedKeys(defs, tag, values) ==
    {SliceStable(defs, Collect(defs, tag, values, order)) : order \in Orders(DOMAIN defs)}

-----------------------------------------------------------------------------
(* The state as one record, so that the methods below are functions from   *)
(* state to state that call one another as the Go methods do.              *)

World ==
    [definitions |-> definitions, providers |-> providers, resolvers |-> resolvers,
     resolved |-> resolved, lock |-> lock, containers |-> containers, view |-> view,
     stack |-> stack, outcome |-> outcome, spy |-> spy, built |-> built, ran |-> ran,
     history |-> history, ncalls |-> ncalls]

Apply(w) ==
    /\ definitions' = w.definitions
    /\ providers' = w.providers
    /\ resolvers' = w.resolvers
    /\ resolved' = w.resolved
    /\ lock' = w.lock
    /\ containers' = w.containers
    /\ view' = w.view
    /\ stack' = w.stack
    /\ outcome' = w.outcome
    /\ spy' = w.spy
    /\ built' = w.built
    /\ ran' = w.ran
    /\ history' = w.history
    /\ ncalls' = w.ncalls

Count(m, k) == IF k \in DOMAIN m THEN m[k] ELSE 0

Top(stk) == stk[Len(stk)]

Below(stk) == SubSeq(stk, 1, Len(stk) - 1)

\* A goroutine with no call in progress.
Idle(t) == stack[t] = <<>>

\* The frame on top of goroutine t's stack is a call of op at position pc.
At(t, op, pc) == stack[t] # <<>> /\ Top(stack[t]).op = op /\ Top(stack[t]).pc = pc

\* Goroutine t issues a call of the API; n numbers the calls of a behaviour,
\* and during holds the numbers of the calls in progress when this one began.
Begin(w, t, call) ==
    [w EXCEPT !.ncalls = @ + 1,
              !.history.calls = @ \cup {call},
              !.outcome[t] = [n |-> w.ncalls + 1, call |-> call, kind |-> "running",
                              val |-> <<>>,
                              during |-> {w.outcome[u].n :
                                            u \in {v \in Threads : w.stack[v] # <<>>}}]]

\* No view: the one a call made is unreachable once the call has ended.
NoView == [loading |-> <<>>, lock |-> FALSE, sealed |-> FALSE]

\* The deferred Unlock of one frame: of Get (container.go:43) on the lock of
\* the container it was called on, of GetContainer (container_builder.go:346)
\* on the lock of the builder.
Release(w, t, fr) ==
    IF fr.op = "Get" /\ fr.locked
    THEN IF fr.view THEN [w EXCEPT !.view[t].lock = FALSE]
         ELSE [w EXCEPT !.containers[fr.c].lock = NoThread]
    ELSE IF fr.op = "GetContainer" /\ fr.pc # "lock" THEN [w EXCEPT !.lock = NoThread]
    ELSE w

RECURSIVE Unwind(_, _, _)
Unwind(w, t, frames) ==
    IF frames = <<>> THEN w ELSE Unwind(Release(w, t, Top(frames)), t, Below(frames))

\* The frame that recovers a panic raised above it: the topmost Get whose
\* factory is in a call it made under a deferred recover(); 0 when there is
\* none.
Catcher(stk) ==
    LET catching == {i \in 1 .. Len(stk) :
                        /\ stk[i].op = "Get"
                        /\ stk[i].pc = "factory"
                        /\ stk[i].i <= Len(stk[i].def.Factory.body)
                        /\ stk[i].def.Factory.body[stk[i].i].op = "TryGet"}
    IN  IF catching = {} THEN 0 ELSE CHOOSE i \in catching : \A j \in catching : j <= i

\* A panic that runs no deferred Unlock on its way up.
PanicKeepsLocks(w, t, err) ==
    LET stk == w.stack[t]
        i == Catcher(stk)
    IN  IF i = 0
        THEN [w EXCEPT
                !.stack[t] = <<>>,
                !.view[t] = NoView,
                !.outcome[t] = [@ EXCEPT !.kind = "panic", !.val = err]]
        ELSE [w EXCEPT
                !.stack[t] = Append(SubSeq(stk, 1, i - 1), [stk[i] EXCEPT !.i = @ + 1])]

\* panic(err): no frame of the library recovers, so the stack of the goroutine
\* unwinds to the caller of the API, or to the factory that recovers, running
\* the deferred unlocks on the way.  Nothing else is undone: a key pushed on
\* a loading stack stays on it.
Panic(w, t, err) ==
    LET stk == w.stack[t]
        i == Catcher(stk)
    IN  IF i = 0
        THEN [Unwind(w, t, stk) EXCEPT
                !.stack[t] = <<>>,
                !.view[t] = NoView,
                !.outcome[t] = [@ EXCEPT !.kind = "panic", !.val = err]]
        ELSE [Unwind(w, t, SubSeq(stk, i + 1, Len(stk))) EXCEPT
                !.stack[t] = Append(SubSeq(stk, 1, i - 1), [stk[i] EXCEPT !.i = @ + 1])]

\* A call returns val to the frame below it, or to the caller of the API.
Return(w, t, below, val) ==
    IF below = <<>>
    THEN [w EXCEPT !.stack[t] = <<>>, !.view[t] = NoView,
                   !.outcome[t] = [@ EXCEPT !.kind = "value", !.val = val]]
    ELSE LET caller == Top(below)
             next == IF caller.op = "GetTaggedBy"
                     THEN [caller EXCEPT !.i = @ + 1, !.acc = Append(@, val)]
                     ELSE [caller EXCEPT !.i = @ + 1]
         IN  [w EXCEPT !.stack[t] = Append(Below(below), next)]

-----------------------------------------------------------------------------
(* container.go                                                            *)

\* GetContainer with sealed: false in the container it returns.
ReceiverNotSealed(w, t, fr) ==
    IF fr.view THEN w.view[t] ELSE [loading |-> <<>>, lock |-> FALSE, sealed |-> FALSE]

\* The receiver of a call of goroutine t: a container GetContainer returned
\* (loading is nil and never written, sealed is true), or the view unseal made.
Receiver(w, t, fr) ==
    IF fr.view THEN w.view[t] ELSE [loading |-> <<>>, lock |-> FALSE, sealed |-> TRUE]

\* unseal that copies the sealed flag of its receiver.
unsealKeepsFlag(c) ==
    IF ~c.sealed THEN c ELSE [loading |-> <<>>, lock |-> FALSE, sealed |-> c.sealed]

\* unseal: the receiver itself when it is not sealed, else a new container on
\* the same instances with an empty loading stack and a new mutex.
unseal(c) ==
    IF ~c.sealed THEN c ELSE [loading |-> <<>>, lock |-> FALSE, sealed |-> FALSE]

\* A construct whose circular-reference panic names the key it found on the
\* loading stack in place of the last key pushed.
constructNamesFoundKey(w, t, below, fr) ==
    LET loading == Receiver(w, t, fr).loading
        u == unseal(Receiver(w, t, fr))
        f == fr.def.Factory
        n == Count(w.spy, f.id) + 1
    IN  IF fr.key \in Range(loading)
        THEN Panic(w, t, <<"circular reference", loading[1], fr.key>>)
        ELSE [w EXCEPT
                !.view[t] = [u EXCEPT !.loading = Append(u.loading, fr.key)],
                !.spy = Put(@, f.id, n),
                !.built[fr.c] = Put(@, fr.key, Count(@, fr.key) + 1),
                !.stack[t] = Append(below,
                    [fr EXCEPT !.pc = "factory", !.i = 1,
                               !.val = IF f.kind = "value" THEN f.id
                                       ELSE <<f.id, n>>])]

\* construct, up to the call of the factory: the frame fr of Get goes on top
\* of below, at the first call of the factory's body.
construct(w, t, below, fr) ==
    LET loading == Receiver(w, t, fr).loading
        u == unseal(Receiver(w, t, fr))
        f == fr.def.Factory
        n == Count(w.spy, f.id) + 1
    IN  IF fr.key \in Range(loading)
        THEN Panic(w, t, <<"circular reference", loading[1], loading[Len(loading)]>>)
        ELSE [w EXCEPT
                !.view[t] = [u EXCEPT !.loading = Append(u.loading, fr.key)],
                !.spy = Put(@, f.id, n),
                !.built[fr.c] = Put(@, fr.key, Count(@, fr.key) + 1),
                !.stack[t] = Append(below,
                    [fr EXCEPT !.pc = "factory", !.i = 1,
                               !.val = IF f.kind = "value" THEN f.id
                                       ELSE <<f.id, n>>])]

\* Get that follows an alias to its target for the private flag.
GetTargetVisibility(w, t, c, isView, key) ==
    LET def == GetDefinition(w.definitions, key)
        target == IF def.AliasOf = NoDefinition THEN def ELSE def.AliasOf
        fr == [op |-> "Get", pc |-> "lock", c |-> c, view |-> isView, key |-> key,
               def |-> def, locked |-> FALSE, i |-> 0, val |-> <<>>]
    IN  IF def = NoDefinition
        THEN Panic(w, t, <<"nil pointer dereference", key>>)
        ELSE IF Receiver(w, t, fr).sealed /\ target.Private
        THEN Panic(w, t, <<"private", key, isView>>)
        ELSE IF ~def.Shared
        THEN construct(w, t, w.stack[t], fr)
        ELSE [w EXCEPT !.stack[t] = Append(@, fr)]

\* Get, up to c.lock.Lock(): called by goroutine t on container c itself, or
\* (isView) on the view of c that a factory was given.
Get(w, t, c, isView, key) ==
    LET def == GetDefinition(w.definitions, key)
        fr == [op |-> "Get", pc |-> "lock", c |-> c, view |-> isView, key |-> key,
               def |-> def, locked |-> FALSE, i |-> 0, val |-> <<>>]
    IN  IF def = NoDefinition
        THEN Panic(w, t, <<"nil pointer dereference", key>>)
        ELSE IF Receiver(w, t, fr).sealed /\ def.Private
        THEN Panic(w, t, <<"private", key, isView>>)
        ELSE IF ~def.Shared
        THEN construct(w, t, w.stack[t], fr)
        ELSE [w EXCEPT !.stack[t] = Append(@, fr)]

\* Get without c.lock.Lock(): the mutex is never waited for.
LockNeverWaited(w, t, fr) == TRUE

\* The mutex Get locks: the container's, or the one unseal made for the view.
LockFree(w, t, fr) ==
    IF fr.view THEN ~w.view[t].lock ELSE w.containers[fr.c].lock = NoThread

\* Get from c.lock.Lock() on: the cached instance, or construct.
GetLocked(w, t) ==
    LET fr == [Top(w.stack[t]) EXCEPT !.locked = TRUE]
        below == Below(w.stack[t])
        held == IF fr.view
                THEN [w EXCEPT !.view[t].lock = TRUE, !.stack[t] = Append(below, fr)]
                ELSE [w EXCEPT !.containers[fr.c].lock = t, !.stack[t] = Append(below, fr)]
        instances == w.containers[fr.c].instances
    IN  IF fr.key \in DOMAIN instances
        THEN Return(Release(held, t, fr), t, below, instances[fr.key])
        ELSE construct(held, t, below, fr)

\* Get that stores the instance of every definition, shared or not.
GetReturnStoresAll(w, t) ==
    LET fr == Top(w.stack[t])
        popped == [w EXCEPT !.view[t].loading = SubSeq(@, 1, Len(@) - 1)]
        stored == [popped EXCEPT !.containers[fr.c].instances = Put(@, fr.key, fr.val)]
    IN  Return(Release(stored, t, fr), t, Below(w.stack[t]), fr.val)

\* construct that leaves the key on the loading stack when the factory has
\* returned.
GetReturnKeepsLoading(w, t) ==
    LET fr == Top(w.stack[t])
        stored == IF fr.def.Shared
                  THEN [w EXCEPT !.containers[fr.c].instances = Put(@, fr.key, fr.val)]
                  ELSE w
    IN  Return(Release(stored, t, fr), t, Below(w.stack[t]), fr.val)

\* The factory has returned: construct pops the loading stack, Get stores the
\* instance of a shared definition and returns it.
GetReturn(w, t) ==
    LET fr == Top(w.stack[t])
        popped == [w EXCEPT !.view[t].loading = SubSeq(@, 1, Len(@) - 1)]
        stored == IF fr.def.Shared
                  THEN [popped EXCEPT !.containers[fr.c].instances = Put(@, fr.key, fr.val)]
                  ELSE popped
    IN  Return(Release(stored, t, fr), t, Below(w.stack[t]), fr.val)

\* GetTaggedBy: the frame that calls Get on each key in turn.
GetTaggedBy(w, t, c, isView, keys) ==
    [w EXCEPT !.stack[t] = Append(@,
        [op |-> "GetTaggedBy", pc |-> "loop", c |-> c, view |-> isView,
         keys |-> keys, i |-> 1, acc |-> <<>>])]

-----------------------------------------------------------------------------
(* container_builder.go: the calls on the builder, as frames.              *)

\* SetInjectable's closure: it gets the key of every field labelled inject.
RECURSIVE GetEach(_)
GetEach(keys) ==
    IF keys = <<>> THEN <<>>
    ELSE <<[op |-> "Get", key |-> Head(keys)]>> \o GetEach(Tail(keys))

InjectFactory(fields) == [id |-> <<"inject", fields>>, kind |-> "inject", body |-> GetEach(fields)]

SetInjectable(defs, key, fields, tags) ==
    setDefinition(defs, key, InjectFactory(fields), Append(tags, TagInject :> <<>>))

\* A setter up to c.panicIfResolved(): the frame that waits for the builder's
\* lock, with the definition setDefinition will store (or its error).
Setter(w, t, pending, aliased) ==
    [w EXCEPT !.stack[t] = Append(@,
        [op |-> "set", pc |-> "guard", pending |-> pending, aliased |-> aliased])]

\* SetAlias that does not add the alias tag to the tags of the definition.
SetAliasNoKindTag(w, t, key, def, tags) ==
    IF key \in DOMAIN w.definitions /\ w.definitions[key].AliasOf = NoDefinition
    THEN Panic(w, t, <<"already exists and alias cannot be set", key>>)
    ELSE IF def \notin DOMAIN w.definitions
    THEN Panic(w, t, <<"does not exist and alias cannot be set", def>>)
    ELSE Setter(w, t,
                setDefinition(w.definitions, key, w.definitions[def].Factory, tags),
                w.definitions[def])

\* SetAlias that gives the alias a factory of its own, not the target's.
SetAliasOwnFactory(w, t, key, def, tags) ==
    IF key \in DOMAIN w.definitions /\ w.definitions[key].AliasOf = NoDefinition
    THEN Panic(w, t, <<"already exists and alias cannot be set", key>>)
    ELSE IF def \notin DOMAIN w.definitions
    THEN Panic(w, t, <<"does not exist and alias cannot be set", def>>)
    ELSE Setter(w, t,
                setDefinition(w.definitions, key, Func(parseKey(key).key, <<>>),
                              Append(tags, TagAlias :> <<>>)),
                w.definitions[def])

\* SetAlias without the check of the target: a target that is not a key is
\* aliased as a definition of no factory.
SetAliasNoTargetCheck(w, t, key, def, tags) ==
    IF key \in DOMAIN w.definitions /\ w.definitions[key].AliasOf = NoDefinition
    THEN Panic(w, t, <<"already exists and alias cannot be set", key>>)
    ELSE LET aliased == IF def \in DOMAIN w.definitions THEN w.definitions[def]
                        ELSE newDefinition(Func(<<>>, <<>>), <<>>).def
         IN  Setter(w, t,
                    setDefinition(w.definitions, key, aliased.Factory,
                                  Append(tags, TagAlias :> <<>>)),
                    aliased)

\* SetAlias: both checks read c.definitions before the guard, the first with
\* the key as given.
SetAlias(w, t, key, def, tags) ==
    IF key \in DOMAIN w.definitions /\ w.definitions[key].AliasOf = NoDefinition
    THEN Panic(w, t, <<"already exists and alias cannot be set", key>>)
    ELSE IF def \notin DOMAIN w.definitions
    THEN Panic(w, t, <<"does not exist and alias cannot be set", def>>)
    ELSE Setter(w, t,
                setDefinition(w.definitions, key, w.definitions[def].Factory,
                              Append(tags, TagAlias :> <<>>)),
                w.definitions[def])

\* AddProvider / AddResolver: nothing at all for an empty list.
Add(w, t, which, items) ==
    IF items = <<>> THEN Return(w, t, w.stack[t], <<>>)
    ELSE [w EXCEPT !.stack[t] = Append(@,
            [op |-> "add", pc |-> "guard", which |-> which, items |-> items])]

\* One call on the builder, by the program or by a provider or resolver.
BuilderCall(w, t, call) ==
    CASE call.op = "SetValue" ->
            Setter(w, t, SetValue(w.definitions, call.key, call.value, call.tags), NoDefinition)
      [] call.op = "SetFactory" ->
            Setter(w, t, SetFactory(w.definitions, call.key, call.factory, call.tags), NoDefinition)
      [] call.op = "SetInjectable" ->
            Setter(w, t, SetInjectable(w.definitions, call.key, call.fields, call.tags), NoDefinition)
      [] call.op = "SetAlias" -> SetAlias(w, t, call.key, call.def, call.tags)
      [] call.op = "SetAll" ->
            [w EXCEPT !.stack[t] = Append(@,
                [op |-> "SetAll", pc |-> "loop", all |-> call.all, i |-> 1])]
      [] call.op = "AddProvider" -> Add(w, t, "providers", call.items)
      [] call.op = "AddResolver" -> Add(w, t, "resolvers", call.items)
      [] call.op = "panic" -> Panic(w, t, <<"callback failed">>)

\* panicIfResolved without the test of c.resolved.
GuardNoTest(w, t) ==
    LET fr == Top(w.stack[t])
    IN  IF fr.op = "set" /\ ~fr.pending.ok
        THEN Panic(w, t, fr.pending.err)
        ELSE [w EXCEPT !.stack[t] = Append(Below(@), [fr EXCEPT !.pc = "write"])]

\* panicIfResolved, entered with the builder's lock free: the lock is taken,
\* the flag read, the lock released.  Then setDefinition builds the definition.
Guard(w, t) ==
    LET fr == Top(w.stack[t])
    IN  IF w.resolved
        THEN Panic(w, t, <<"container is resolved and new items can not be set">>)
        ELSE IF fr.op = "set" /\ ~fr.pending.ok
        THEN Panic(w, t, fr.pending.err)
        ELSE [w EXCEPT !.stack[t] = Append(Below(@), [fr EXCEPT !.pc = "write"])]

\* A write that leaves the AliasOf of the definition it replaces in place.
WriteKeepsAliasOf(w, t) ==
    LET fr == Top(w.stack[t])
        below == Below(w.stack[t])
    IN  IF fr.op = "set"
        THEN LET k == fr.pending.key
                 d == [fr.pending.def EXCEPT !.AliasOf =
                          IF k \in DOMAIN w.definitions THEN w.definitions[k].AliasOf
                          ELSE fr.aliased]
             IN  Return([w EXCEPT !.definitions = Put(@, k, d)], t, below, d)
        ELSE IF fr.which = "providers"
        THEN Return([w EXCEPT !.providers = @ \o fr.items], t, below, <<>>)
        ELSE Return([w EXCEPT !.resolvers = @ \o fr.items], t, below, <<>>)

\* The write that follows the guard, outside the lock: c.definitions[k] = def
\* (and d.AliasOf = aliased in SetAlias), or the append to the callbacks.
Write(w, t) ==
    LET fr == Top(w.stack[t])
        below == Below(w.stack[t])
    IN  IF fr.op = "set"
        THEN LET d == [fr.pending.def EXCEPT !.AliasOf = fr.aliased]
             IN  Return([w EXCEPT !.definitions = Put(@, fr.pending.key, d)], t, below, d)
        ELSE IF fr.which = "providers"
        THEN Return([w EXCEPT !.providers = @ \o fr.items], t, below, <<>>)
        ELSE Return([w EXCEPT !.resolvers = @ \o fr.items], t, below, <<>>)

\* One turn of SetAll's loop: the kind of the binding selects the setter,
\* which is given the bare key and the merged tags.  A Target of another type
\* than the setter's fails the type assertion.
SetAllLoop(w, t) ==
    LET fr == Top(w.stack[t])
        b == fr.all[fr.i]
        p == parseKey(b.Key)
        mergedTags == mergeTags(<<b.Tags, p.tags>>)
        kind == selectKindTag(mergedTags)
    IN  IF fr.i > Len(fr.all) THEN Return(w, t, Below(w.stack[t]), <<>>)
        ELSE IF ~kind.ok THEN Panic(w, t, Append(kind.err, p.key))
        ELSE IF kind.val = TagAlias
        THEN IF b.Target.type # "string" THEN Panic(w, t, <<"interface conversion">>)
             ELSE SetAlias(w, t, p.key, b.Target.val, <<mergedTags>>)
        ELSE IF kind.val = TagValue
        THEN Setter(w, t, SetValue(w.definitions, p.key, b.Target.val, <<mergedTags>>),
                    NoDefinition)
        ELSE IF kind.val = TagInject
        THEN IF b.Target.type # "struct" THEN Panic(w, t, <<"only structs can be injectables">>)
             ELSE Setter(w, t, SetInjectable(w.definitions, p.key, b.Target.val, <<mergedTags>>),
                         NoDefinition)
        ELSE IF b.Target.type # "func" THEN Panic(w, t, <<"interface conversion">>)
        ELSE Setter(w, t, SetFactory(w.definitions, p.key, b.Target.val, <<mergedTags>>),
                    NoDefinition)

\* GetContainer that hands the instances of the first container to the next.
NewContainerSameInstances(w, t, below) ==
    Return([w EXCEPT !.containers =
                        Append(@, [instances |-> IF w.containers = <<>> THEN EmptyMap
                                                 ELSE w.containers[1].instances,
                                   lock |-> NoThread]),
                     !.built = Append(@, EmptyMap)],
           t, below, <<"container", Len(w.containers) + 1>>)

\* The container GetContainer returns: sealed, with no instance.
NewContainer(w, t, below) ==
    Return([w EXCEPT !.containers = Append(@, [instances |-> EmptyMap, lock |-> NoThread]),
                     !.built = Append(@, EmptyMap)],
           t, below, <<"container", Len(w.containers) + 1>>)

\* GetContainer without the test of c.resolved: every call sweeps.
GetContainerAlwaysSweeps(w, t) ==
    LET fr == Top(w.stack[t])
        below == Below(w.stack[t])
    IN  [w EXCEPT !.lock = t,
                  !.history.log = Append(@, <<>>),
                  !.stack[t] = Append(below,
                      [fr EXCEPT !.pc = "providers", !.cbs = w.providers, !.i = 1])]

\* GetContainer without c.lock.Lock(): the sweep starts with the lock free.
GetContainerNoLock(w, t) ==
    LET fr == Top(w.stack[t])
        below == Below(w.stack[t])
    IN  IF w.resolved THEN NewContainer(w, t, below)
        ELSE [w EXCEPT !.history.log = Append(@, <<>>),
                       !.stack[t] = Append(below,
                           [fr EXCEPT !.pc = "providers", !.cbs = w.providers, !.i = 1])]

\* GetContainer that sets c.resolved before the sweep instead of after it.
GetContainerSealsFirst(w, t) ==
    LET fr == Top(w.stack[t])
        below == Below(w.stack[t])
    IN  IF w.resolved THEN NewContainer(w, t, below)
        ELSE [w EXCEPT !.lock = t,
                       !.resolved = TRUE,
                       !.history.log = Append(@, <<>>),
                       !.stack[t] = Append(below,
                           [fr EXCEPT !.pc = "providers", !.cbs = w.providers, !.i = 1])]

\* GetContainer from c.lock.Lock() on, entered with the lock free.
GetContainerLocked(w, t) ==
    LET fr == Top(w.stack[t])
        below == Below(w.stack[t])
    IN  IF w.resolved THEN NewContainer(w, t, below)
        ELSE [w EXCEPT !.lock = t,
                       !.history.log = Append(@, <<>>),
                       !.stack[t] = Append(below,
                           [fr EXCEPT !.pc = "providers", !.cbs = w.providers, !.i = 1])]

\* One turn of GetContainer's loops: the next provider, then the next
\* resolver, then the flag is set and the lock released.
Sweep(w, t) ==
    LET fr == Top(w.stack[t])
        below == Below(w.stack[t])
    IN  IF fr.i <= Len(fr.cbs)
        THEN [w EXCEPT
                !.ran = Put(@, fr.cbs[fr.i].id, Count(@, fr.cbs[fr.i].id) + 1),
                !.history.log[Len(w.history.log)] = Append(@, fr.cbs[fr.i].id),
                !.stack[t] = Append(@, [op |-> "callback", pc |-> "body",
                                        cb |-> fr.cbs[fr.i], i |-> 1])]
        ELSE IF fr.pc = "providers"
        THEN [w EXCEPT !.stack[t] = Append(below,
                [fr EXCEPT !.pc = "resolvers", !.cbs = w.resolvers, !.i = 1])]
        ELSE NewContainer([w EXCEPT !.resolved = TRUE, !.lock = NoThread,
                                    !.history.sweeps = @ + 1],
                          t, below)

\* One call of the body of a provider or resolver, or its return.
Callback(w, t) ==
    LET fr == Top(w.stack[t])
    IN  IF fr.i <= Len(fr.cb.body) THEN BuilderCall(w, t, fr.cb.body[fr.i])
        ELSE Return(w, t, Below(w.stack[t]), <<>>)

-----------------------------------------------------------------------------
(* The actions: a goroutine issues a call, or takes the next step of the   *)
(* call it is in.                                                          *)

\* Goroutine t may issue a call.  Goroutines differ in nothing but their name,
\* so the call is issued by the idle goroutine of the least name.
MayCall(t) ==
    /\ Idle(t)
    /\ ncalls < MaxCalls
    /\ \A u \in Threads : u < t => ~Idle(u)

\* b.GetContainer(), as long as the program has asked for fewer than most
GetContainerCall(t, most) ==
    /\ MayCall(t)
    /\ Len(containers)
         + Cardinality({u \in Threads : stack[u] # <<>> /\ stack[u][1].op = "GetContainer"})
            < most
    /\ Apply([Begin(World, t, [op |-> "GetContainer"]) EXCEPT
                !.stack[t] = <<[op |-> "GetContainer", pc |-> "lock", cbs |-> <<>>, i |-> 0]>>])

GetContainerLockStep(t) ==
    /\ At(t, "GetContainer", "lock")
    /\ lock = NoThread
    /\ Apply(GetContainerLocked(World, t))

SweepStep(t) ==
    /\ At(t, "GetContainer", "providers") \/ At(t, "GetContainer", "resolvers")
    /\ Apply(Sweep(World, t))

\* c.Get(key) on a container GetContainer has returned
GetCall(t, keys) ==
    /\ MayCall(t)
    /\ \E c \in 1 .. Len(containers), key \in keys :
          Apply(Get(Begin(World, t, [op |-> "Get", c |-> c, key |-> key]), t, c, FALSE, key))

GetLockStep(t) ==
    /\ At(t, "Get", "lock")
    /\ LockFree(World, t, Top(stack[t]))
    /\ Apply(GetLocked(World, t))

\* The factory of the Get on top of the stack makes its next call on the
\* container it was given (the view), or returns.
FactoryStep(t) ==
    /\ At(t, "Get", "factory")
    /\ LET fr == Top(stack[t])
           body == fr.def.Factory.body
       IN  IF fr.i > Len(body) THEN Apply(GetReturn(World, t))
           ELSE IF body[fr.i].op \in {"Get", "TryGet"}
           THEN Apply(Get(World, t, fr.c, TRUE, body[fr.i].key))
           ELSE IF body[fr.i].op = "GetTaggedBy"
           THEN \E keys \in GetTaggedKeys(definitions, body[fr.i].tag, body[fr.i].values) :
                    Apply(GetTaggedBy(World, t, fr.c, TRUE, keys))
           ELSE Apply(Panic(World, t, <<"factory failed", fr.key>>))

\* c.GetTaggedBy(tag, values...) on a container GetContainer has returned
GetTaggedByCall(t, tags) ==
    /\ MayCall(t)
    /\ \E c \in 1 .. Len(containers), tag \in tags :
       \E keys \in GetTaggedKeys(definitions, tag, <<>>) :
          Apply(GetTaggedBy(Begin(World, t, [op |-> "GetTaggedBy", c |-> c, tag |-> tag]),
                            t, c, FALSE, keys))

\* A loop of GetTaggedBy that passes over the private keys on a sealed
\* container.
GetTaggedByStepSkipsPrivate(t) ==
    /\ At(t, "GetTaggedBy", "loop")
    /\ LET fr == Top(stack[t])
       IN  IF fr.i <= Len(fr.keys)
           THEN IF ~fr.view /\ definitions[fr.keys[fr.i]].Private
                THEN Apply([World EXCEPT
                               !.stack[t] = Append(Below(@), [fr EXCEPT !.i = @ + 1])])
                ELSE Apply(Get(World, t, fr.c, fr.view, fr.keys[fr.i]))
           ELSE Apply(Return(World, t, Below(stack[t]), fr.acc))

GetTaggedByStep(t) ==
    /\ At(t, "GetTaggedBy", "loop")
    /\ LET fr == Top(stack[t])
       IN  IF fr.i <= Len(fr.keys)
           THEN Apply(Get(World, t, fr.c, fr.view, fr.keys[fr.i]))
           ELSE Apply(Return(World, t, Below(stack[t]), fr.acc))

\* a setter, AddProvider or AddResolver called by the program
BuilderCallBy(t, calls) ==
    /\ MayCall(t)
    /\ \E call \in calls : Apply(BuilderCall(Begin(World, t, call), t, call))

GuardStep(t) ==
    /\ At(t, "set", "guard") \/ At(t, "add", "guard")
    /\ lock = NoThread
    /\ Apply(Guard(World, t))

WriteStep(t) ==
    /\ At(t, "set", "write") \/ At(t, "add", "write")
    /\ Apply(Write(World, t))

SetAllStep(t) ==
    /\ At(t, "SetAll", "loop")
    /\ Apply(SetAllLoop(World, t))

CallbackStep(t) ==
    /\ At(t, "callback", "body")
    /\ Apply(Callback(World, t))

-----------------------------------------------------------------------------
(* Spec: resolution.  The builder holds one of a family of registries, as  *)
(* SetFactory leaves them; the program asks for one container, on which    *)
(* its goroutines call Get and GetTaggedBy.                                *)

A == <<"a">>
B == <<"b">>
C == <<"c">>
Keys == {A, B, C}
TagT == <<"t">>

GetOf(k) == [op |-> "Get", key |-> k]

\* The calls the factory of key k makes, per shape of dependency graph.
Body(shape, k) ==
    CASE shape = "chain" ->
            IF k = A THEN <<GetOf(B)>> ELSE IF k = B THEN <<GetOf(C)>> ELSE <<>>
      [] shape = "cycle" ->
            IF k = A THEN <<GetOf(B)>> ELSE IF k = B THEN <<GetOf(C)>> ELSE <<GetOf(A)>>
      [] shape = "pair" ->
            IF k = A THEN <<GetOf(B)>> ELSE IF k = B THEN <<GetOf(A)>> ELSE <<>>
      [] shape = "self" ->
            IF k = A THEN <<GetOf(A)>> ELSE IF k = B THEN <<GetOf(A)>> ELSE <<>>
      [] shape = "diamond" ->
            IF k = A THEN <<GetOf(B), GetOf(C)>> ELSE IF k = B THEN <<GetOf(C)>> ELSE <<>>
      [] shape = "tagged" ->
            IF k = A THEN <<[op |-> "GetTaggedBy", tag |-> TagT, values |-> <<>>]>> ELSE <<>>

Shapes == {"chain", "cycle", "pair", "self", "diamond", "tagged"}

\* The key as the program writes it: "a", "a #shared", "a #shared #private #t"
RawKey(k, shared, private, tagged) ==
    k \o (IF shared THEN <<" ", "#">> \o TagShared ELSE <<>>)
      \o (IF private THEN <<" ", "#">> \o TagPrivate ELSE <<>>)
      \o (IF tagged THEN <<" ", "#">> \o TagT ELSE <<>>)

\* The definitions after b.SetFactory(...) for a, b and c.
RECURSIVE Registry(_, _, _, _)
Registry(shape, sh, pr, keys) ==
    IF keys = <<>> THEN EmptyMap
    ELSE LET k == keys[Len(keys)]
         IN  SetFactory(Registry(shape, sh, pr, Below(keys)),
                        RawKey(k, k \in sh, k \in pr, shape = "tagged" /\ k # A),
                        Func(k, Body(shape, k)), <<>>).defs

\* The shared and the private keys of a registry: every choice of shared
\* keys, and private dependencies with and without the shared tag.
Flags ==
    [shared : SUBSET Keys, private : {{}}]
        \cup [shared : {{}, {C}, {B, C}}, private : {{C}, {B, C}}]

NoCall == [n |-> 0, call |-> [op |-> "none"], kind |-> "none", val |-> <<>>, during |-> {}]

\* The builder as NewContainerBuilder() makes it, but for its definitions.
NewContainerBuilder ==
    /\ providers = <<>>
    /\ resolvers = <<>>
    /\ resolved = FALSE
    /\ lock = NoThread

\* No call has been made yet: no container, no goroutine in a call.
NoCallYet ==
    /\ containers = <<>>
    /\ view = [t \in Threads |-> NoView]
    /\ stack = [t \in Threads |-> <<>>]
    /\ outcome = [t \in Threads |-> NoCall]
    /\ spy = EmptyMap
    /\ built = <<>>
    /\ ran = EmptyMap
    /\ history = [log |-> <<>>, sweeps |-> 0, calls |-> {}]
    /\ ncalls = 0

Init ==
    /\ NewContainerBuilder
    /\ NoCallYet
    /\ \E shape \in Shapes, flags \in Flags :
          definitions = Registry(shape, flags.shared, flags.private, <<A, B, C>>)

Next ==
    \E t \in Threads :
        \/ GetContainerCall(t, 1)
        \/ GetContainerLockStep(t)
        \/ SweepStep(t)
        \/ GetCall(t, Keys)
        \/ GetLockStep(t)
        \/ FactoryStep(t)
        \/ GetTaggedByCall(t, {TagT})
        \/ GetTaggedByStep(t)

Spec == Init /\ [][Next]_vars

-----------------------------------------------------------------------------
(* The dependency graph of a registry.                                     *)

\* The keys the factory of k gets.
DepsOf(defs, k) ==
    UNION {IF call.op \in {"Get", "TryGet"} THEN {call.key} \cap DOMAIN defs
           ELSE IF call.op = "GetTaggedBy" THEN TaggedSet(defs, call.tag, call.values)
           ELSE {} : call \in Range(defs[k].Factory.body)}

RECURSIVE Closure(_, _)
Closure(defs, S) ==
    LET N == S \cup UNION {DepsOf(defs, k) : k \in S}
    IN  IF N = S THEN S ELSE Closure(defs, N)

\* The keys the construction of k can demand.
ReachFrom(defs, k) == Closure(defs, DepsOf(defs, k))

\* No construction started by Get(k) comes back to a key it is constructing.
AcyclicFrom(defs, k) ==
    \A j \in {k} \cup ReachFrom(defs, k) : j \notin ReachFrom(defs, j)

\* Goroutine t is in a call of Get whose Lock() waits for a mutex that t itself
\* holds: the mutex of the view, locked by a Get of t further down its stack.
\* No step can ever release it.
WaitsForItself(t) ==
    /\ At(t, "Get", "lock")
    /\ Top(stack[t]).view
    /\ view[t].lock

-----------------------------------------------------------------------------
(* The claims about resolution.                                            *)

\* C1: in every interleaving of Get and GetTaggedBy calls on one container,
\* the factory of a shared definition is invoked at most once for that
\* container, be the key requested by a caller or from inside a factory.
C1_SharedFactoryAtMostOnce ==
    \A c \in 1 .. Len(containers) : \A k \in DOMAIN definitions :
        definitions[k].Shared => Count(built[c], k) <= 1

\* C2: a Get on a key whose dependency graph is acyclic returns or fails: it
\* is never left waiting for a mutex that only its own goroutine can release,
\* at any depth of shared definitions that request shared definitions.
C2_GetNeverWaitsForItself ==
    \A t \in Threads :
        (/\ outcome[t].call.op = "Get"
         /\ outcome[t].call.key \in DOMAIN definitions
         /\ AcyclicFrom(definitions, outcome[t].call.key))
            => ~WaitsForItself(t)

\* Every call issued so far on container c is Get(k).
OnlyGetsOf(c, k) ==
    \A call \in history.calls :
        \/ call.op = "GetContainer"
        \/ call.op = "Get" /\ call.c = c /\ call.key = k

\* The factory of shared key k ran at most once on container c, and every
\* Get(k) that has returned a value returned the one instance that run made.
OnceAndSame(c, k) ==
    /\ Count(built[c], k) <= 1
    /\ \A t \in Threads :
          (outcome[t].call = [op |-> "Get", c |-> c, key |-> k] /\ outcome[t].kind = "value")
             => /\ Count(built[c], k) = 1
                /\ k \in DOMAIN containers[c].instances
                /\ outcome[t].val = containers[c].instances[k]
                /\ outcome[t].val = <<definitions[k].Factory.id, 1>>

\* A call of one goroutine began while a call of another was in progress.
Overlapped ==
    \E t, u \in Threads : t # u /\ outcome[u].n \in outcome[t].during

C12_SharedOnceElseEach ==
    \A c \in 1 .. Len(containers) : \A k \in DOMAIN definitions :
        AcyclicFrom(definitions, k) =>
            /\ definitions[k].Shared => Count(built[c], k) <= 1
            /\ \A t \in Threads :
                  (outcome[t].call = [op |-> "Get", c |-> c, key |-> k]
                      /\ outcome[t].kind = "value")
                     => IF definitions[k].Shared
                        THEN outcome[t].val = <<definitions[k].Factory.id, 1>>
                        ELSE \A u \in Threads \ {t} :
                                (outcome[u].call = outcome[t].call
                                    /\ outcome[u].kind = "value")
                                   => outcome[u].val # outcome[t].val

\* C13: the instances of a container hold entries only for keys whose
\* definition is shared: no Get of a key that is not shared adds an entry for
\* it, and none is there for it to read or change.
C13_OnlySharedCached ==
    \A c \in 1 .. Len(containers) : \A k \in DOMAIN containers[c].instances :
        definitions[k].Shared

\* A Get of a key that is not shared has returned after its factory got a
\* shared key, which is cached, and the key itself is not.
C13_Witness ==
    \E t \in Threads : \E c \in 1 .. Len(containers) :
        /\ outcome[t].call.op = "Get" /\ outcome[t].call.c = c
        /\ outcome[t].kind = "value"
        /\ ~definitions[outcome[t].call.key].Shared
        /\ outcome[t].call.key \notin DOMAIN containers[c].instances
        /\ DepsOf(definitions, outcome[t].call.key) \cap DOMAIN containers[c].instances # {}

\* C5: a Get that requests a key already on its own construction chain ends
\* in the circular-reference error, for shared definitions as for the others:
\* it is not left waiting for a mutex its own goroutine holds.
C5_CycleIsReported ==
    \A t \in Threads :
        (At(t, "Get", "lock") /\ Top(stack[t]).view
            /\ Top(stack[t]).key \in Range(view[t].loading))
                => ~WaitsForItself(t)

\* C9: Get on a container GetContainer returned, for a key whose definition
\* is private, ends at once in the visibility error that names the key; the
\* step invokes no factory and leaves the instances as they were.
C9_PrivateGetFails ==
    /\ [](\A t \in Threads :
            (/\ outcome[t].call.op = "Get"
             /\ outcome[t].call.key \in DOMAIN definitions
             /\ definitions[outcome[t].call.key].Private)
                => /\ outcome[t].kind = "panic"
                   /\ outcome[t].val = <<"private", outcome[t].call.key, FALSE>>)
    /\ [][\A t \in Threads :
            (/\ outcome'[t].n # outcome[t].n
             /\ outcome'[t].call.op = "Get"
             /\ outcome'[t].call.key \in DOMAIN definitions
             /\ definitions[outcome'[t].call.key].Private)
                => /\ containers' = containers
                   /\ built' = built
                   /\ spy' = spy]_vars

\* A private key is cached as a dependency, and the Get of it has failed.
C9_Witness ==
    \E t \in Threads :
        /\ outcome[t].call.op = "Get"
        /\ outcome[t].kind = "panic"
        /\ outcome[t].val = <<"private", outcome[t].call.key, FALSE>>
        /\ outcome[t].call.key \in DOMAIN containers[outcome[t].call.c].instances

\* C10: no Get issued from inside a factory (on the view the factory is
\* given), directly or by GetTaggedBy, ends in a visibility error.
C10_NoVisibilityErrorInside ==
    \A t \in Threads :
        (outcome[t].kind = "panic" /\ outcome[t].val[1] = "private")
            => outcome[t].val[3] = FALSE

\* The factory of a private definition runs at depth three of a construction
\* chain: the Get that reached it was issued from inside a factory.
C10_Witness ==
    \E t \in Threads :
        /\ Len(stack[t]) >= 3
        /\ Top(stack[t]).op = "Get" /\ Top(stack[t]).pc = "factory"
        /\ Top(stack[t]).def.Private
        /\ Top(stack[t]).view

-----------------------------------------------------------------------------
(* SpecSeal: the sealing protocol.  The builder holds providers, resolvers *)
(* and definitions as AddProvider, AddResolver and SetValue leave them.    *)
(* The program registers from one goroutine at a time, as its start-up     *)
(* code does, and its goroutines call GetContainer concurrently.           *)

P == <<"p">>
Q == <<"q">>
X == <<"x">>
Y == <<"y">>
Z == <<"z">>

SetValueCall(key, value) == [op |-> "SetValue", key |-> key, value |-> value, tags |-> <<>>]

SetFactoryCall(key, factory) ==
    [op |-> "SetFactory", key |-> key, factory |-> factory, tags |-> <<>>]

SetInjectableCall(key, fields) ==
    [op |-> "SetInjectable", key |-> key, fields |-> fields, tags |-> <<>>]

SetAliasCall(key, def) == [op |-> "SetAlias", key |-> key, def |-> def, tags |-> <<>>]

SetAllCall(all) == [op |-> "SetAll", all |-> all]

AddProviderCall(items) == [op |-> "AddProvider", items |-> items]

AddResolverCall(items) == [op |-> "AddResolver", items |-> items]

\* A provider or resolver is user code: [id, body], body being the calls it
\* makes on the builder it is given.  The tests' spies make none.
Noop(id) == [id |-> id, body |-> <<>>]

Calling(id, call) == [id |-> id, body |-> <<call>>]

Failing(id) == [id |-> id, body |-> <<[op |-> "panic"]>>]

ProviderLists ==
    {<<>>,
     <<Noop("p1"), Noop("p2")>>,
     <<Noop("p1"), Failing("p2")>>,
     <<Noop("p1"), Calling("p2", SetValueCall(P, "v"))>>}

ResolverLists ==
    {<<>>,
     <<Noop("r1"), Noop("r2")>>,
     <<Noop("r1"), Failing("r2")>>,
     <<Calling("r1", SetAliasCall(Q, P))>>}

\* The calls the program makes on the builder.
Registrations ==
    {SetValueCall(X, "v"),
     SetFactoryCall(Y \o <<" ", "#">> \o TagShared, Func(Y, <<GetOf(X)>>)),
     SetInjectableCall(Z, <<X>>),
     SetAliasCall(Q, X),
     SetAllCall(<<[Key |-> X \o <<" ", "#">> \o TagValue,
                   Target |-> [type |-> "string", val |-> "w"],
                   Tags |-> EmptyMap]>>),
     AddProviderCall(<<>>),
     AddProviderCall(<<Noop("p3")>>),
     AddResolverCall(<<Noop("r3")>>)}

InitSeal ==
    /\ NoCallYet
    /\ resolved = FALSE
    /\ lock = NoThread
    /\ providers \in ProviderLists
    /\ resolvers \in ResolverLists
    /\ definitions \in {EmptyMap, SetValue(EmptyMap, P, "v", <<>>).defs}

\* A goroutine is in a registration call of the program.
Registering ==
    \E u \in Threads : stack[u] # <<>> /\ stack[u][1].op \in {"set", "add", "SetAll"}

\* b.GetContainer(), by any goroutine that is free
Seal(t) ==
    /\ ~Registering
    /\ GetContainerCall(t, MaxCalls)

\* a registration call, while no other call is in progress
Register(t) ==
    /\ \A u \in Threads : Idle(u)
    /\ BuilderCallBy(t, Registrations)

NextSeal ==
    \E t \in Threads :
        \/ Seal(t)
        \/ GetContainerLockStep(t)
        \/ SweepStep(t)
        \/ CallbackStep(t)
        \/ Register(t)
        \/ GuardStep(t)
        \/ WriteStep(t)
        \/ SetAllStep(t)

SpecSeal == InitSeal /\ [][NextSeal]_vars

-----------------------------------------------------------------------------
(* The claims about sealing.                                               *)

Ids(cbs) == [i \in 1 .. Len(cbs) |-> cbs[i].id]

Last(s) == s[Len(s)]

IsPrefix(s, r) == Len(s) <= Len(r) /\ s = SubSeq(r, 1, Len(s))

\* Goroutine t is in GetContainer, past c.lock.Lock().
InSweep(t) ==
    stack[t] # <<>> /\ stack[t][1].op = "GetContainer" /\ stack[t][1].pc # "lock"

\* The number of times a callback named id is registered.
Registered(id) ==
    Cardinality({i \in 1 .. Len(providers) : providers[i].id = id})
        + Cardinality({i \in 1 .. Len(resolvers) : resolvers[i].id = id})

\* C3: a setter that a provider or resolver calls during GetContainer
\* completes and registers its definition: it is never left waiting for the
\* builder's lock while the GetContainer that called it holds that lock.
C3_CallbackSetterCompletes ==
    \A t \in Threads :
        (/\ InSweep(t)
         /\ Top(stack[t]).op \in {"set", "add"}
         /\ Top(stack[t]).pc = "guard")
            => lock # t

\* C6: once a GetContainer call has returned, no step of any call changes the
\* definitions, the providers or the resolvers of the builder.
C6_SealedRegistryUnchanged ==
    [][containers # <<>> =>
          /\ definitions' = definitions
          /\ providers' = providers
          /\ resolvers' = resolvers]_vars

\* Every kind of registration call has been made on the sealed builder and
\* has failed on the guard.
C6_Witness ==
    /\ containers # <<>>
    /\ \E t \in Threads :
          /\ outcome[t].call.op \in {"SetValue", "SetFactory", "SetInjectable", "SetAlias",
                                      "SetAll", "AddProvider", "AddResolver"}
          /\ outcome[t].kind = "panic"
          /\ outcome[t].val = <<"container is resolved and new items can not be set">>

\* C7 as stated: each registered callback runs exactly once, and none on a
\* later GetContainer call: no callback ever runs more often than it is
\* registered.
C7_EachCallbackOnce ==
    \A id \in DOMAIN ran : ran[id] <= Registered(id)

\* C7 as amended: the sweep of a GetContainer call runs the providers in
\* registration order, then the resolvers in registration order, each once;
\* the sweep that completes has run them all; and once a GetContainer call has
\* returned, no provider or resolver runs any more.
C7_SweepOrderAndOnce ==
    /\ [](\A t \in Threads :
            InSweep(t) => IsPrefix(Last(history.log), Ids(providers) \o Ids(resolvers)))
    /\ [](resolved => Last(history.log) = Ids(providers) \o Ids(resolvers))
    /\ [][containers # <<>> => (history.log' = history.log /\ ran' = ran)]_vars

\* Two GetContainer calls have returned, and the only sweep ran p1, p2, r1, r2.
C7_Witness ==
    /\ Len(containers) >= 2
    /\ history.log = << <<"p1", "p2", "r1", "r2">> >>
    /\ \A id \in {"p1", "p2", "r1", "r2"} : Count(ran, id) = 1

\* C8 as stated: with concurrent GetContainer calls the sweep runs exactly
\* once in total, and no goroutine has a container before it has completed.
C8_SweepRunsOnce ==
    (\E t \in Threads : outcome[t].call.op = "GetContainer" /\ outcome[t].during # {})
        => /\ Len(history.log) <= 1
           /\ containers # <<>> => resolved

\* C8 as amended: with concurrent GetContainer calls at most one goroutine is
\* in the sweep at a time, the sweep completes at most once, and no goroutine
\* has a container before a sweep has completed.
C8_SweepCompletesOnce ==
    /\ Cardinality({t \in Threads : InSweep(t)}) <= 1
    /\ history.sweeps <= 1
    /\ resolved <=> history.sweeps = 1
    /\ containers # <<>> => resolved
    /\ \A t \in Threads :
          (outcome[t].call.op = "GetContainer" /\ outcome[t].kind = "value") => resolved

\* Two goroutines were in GetContainer on the unsealed builder at the same
\* time: the call that began second swept and returned the first container,
\* the other one the second.
C8_Witness ==
    \E t, u \in Threads :
        /\ outcome[t].call.op = "GetContainer" /\ outcome[u].call.op = "GetContainer"
        /\ outcome[t].n \in outcome[u].during
        /\ outcome[t].kind = "value" /\ outcome[t].val = <<"container", 2>>
        /\ outcome[u].kind = "value" /\ outcome[u].val = <<"container", 1>>
        /\ history.log = << <<"p1", "p2", "r1", "r2">> >>

\* Goroutine t is in a GetContainer call that has not ended.
Sealing(t) == outcome[t].call.op = "GetContainer" /\ outcome[t].kind = "running"

\* C39: the step in which a GetContainer call ends in the panic of a provider
\* or resolver releases the builder's lock, leaves the builder unsealed and
\* returns no container; the sweep it ends ran the callbacks from the first
\* provider up to the one that fails, whatever an earlier sweep ran; every
\* GetContainer call that takes the lock of the unsealed builder starts a
\* new sweep at the first provider; and no setter is refused before a sweep
\* has completed.
C39_FailedSweepRunsAgain ==
    /\ [][\A t \in Threads :
            (Sealing(t) /\ outcome'[t].kind = "panic")
               => /\ lock = t /\ lock' = NoThread
                  /\ ~resolved'
                  /\ containers' = containers
                  /\ definitions' = definitions
                  /\ history.log' = history.log
                  /\ IsPrefix(Last(history.log), Ids(providers) \o Ids(resolvers))
                  /\ Last(Last(history.log)) = stack[t][2].cb.id]_vars
    /\ [][\A t \in Threads :
            (At(t, "GetContainer", "lock") /\ stack'[t] # stack[t] /\ ~resolved)
               => /\ history.log' = Append(history.log, <<>>)
                  /\ Top(stack'[t]).pc = "providers"
                  /\ Top(stack'[t]).cbs = providers
                  /\ Top(stack'[t]).i = 1]_vars
    /\ [](\A t \in Threads :
            (/\ outcome[t].kind = "panic"
             /\ outcome[t].val = <<"container is resolved and new items can not be set">>)
               => history.sweeps >= 1)
    /\ [](\A id \in DOMAIN ran :
            Count(ran, id) =
                Cardinality({at \in (1 .. Len(history.log)) \X (1 .. Len(providers \o resolvers)) :
                                /\ at[2] <= Len(history.log[at[1]])
                                /\ history.log[at[1]][at[2]] = id}))

\* The first GetContainer call failed in p2; SetValue(x, v) was then accepted;
\* the second GetContainer call ran p1 and p2 again and failed in p2.
C39_Witness ==
    /\ history.log = << <<"p1", "p2">>, <<"p1", "p2">> >>
    /\ Count(ran, "p1") = 2
    /\ X \in DOMAIN definitions
    /\ ~resolved /\ lock = NoThread
    /\ \E t \in Threads :
          /\ outcome[t].call.op = "GetContainer"
          /\ outcome[t].kind = "panic"
          /\ outcome[t].n = 3

-----------------------------------------------------------------------------
(* Registries, as a sequence of registration calls leaves them.            *)

\* NewContainerBuilder(), as a World in which no call has been made.
NewWorld ==
    [definitions |-> EmptyMap, providers |-> <<>>, resolvers |-> <<>>,
     resolved |-> FALSE, lock |-> NoThread, containers |-> <<>>,
     view |-> [t \in Threads |-> NoView], stack |-> [t \in Threads |-> <<>>],
     outcome |-> [t \in Threads |-> NoCall], spy |-> EmptyMap, built |-> <<>>,
     ran |-> EmptyMap, history |-> [log |-> <<>>, sweeps |-> 0, calls |-> {}],
     ncalls |-> 0]

\* One setter call of goroutine t run to its end: the call, the guard, the
\* write; a call that panics leaves the world as the panic does.
Registration(w, t, call) ==
    LET called == BuilderCall(w, t, call)
        guarded == IF called.stack[t] = <<>> THEN called ELSE Guard(called, t)
    IN  IF guarded.stack[t] = <<>> THEN guarded ELSE Write(guarded, t)

\* The definitions after the setter calls of a sequence, made in order on a
\* new builder.
RECURSIVE After(_)
After(calls) ==
    IF calls = <<>> THEN NewWorld
    ELSE Registration(After(Below(calls)), 1, calls[Len(calls)])

-----------------------------------------------------------------------------
(* SpecAlias: resolution of aliases.  The builder holds a definition a, an *)
(* alias b of a, each with its own shared and private tags, and c, whose   *)
(* factory gets b; a may have been registered again after b was set.       *)

Bools == {TRUE, FALSE}

\* the factory a is registered with again, after the alias was set
Again == <<"a", "'">>

AliasRegistrations(ash, apr, bsh, bpr, again) ==
    <<SetFactoryCall(RawKey(A, ash, apr, FALSE), Func(A, <<>>)),
      SetAliasCall(RawKey(B, bsh, bpr, FALSE), A),
      SetFactoryCall(C, Func(C, <<GetOf(B)>>))>>
      \o (IF again THEN <<SetFactoryCall(RawKey(A, ash, apr, FALSE), Func(Again, <<>>))>>
          ELSE <<>>)

InitAlias ==
    /\ NewContainerBuilder
    /\ NoCallYet
    /\ \E ash, apr, bsh, bpr, again \in Bools :
          definitions = After(AliasRegistrations(ash, apr, bsh, bpr, again)).definitions

NextAlias ==
    \E t \in Threads :
        \/ GetContainerCall(t, 1)
        \/ GetContainerLockStep(t)
        \/ SweepStep(t)
        \/ GetCall(t, Keys)
        \/ GetLockStep(t)
        \/ FactoryStep(t)

SpecAlias == InitAlias /\ [][NextAlias]_vars

\* The definition under key k is an alias.
IsAlias(k) == k \in DOMAIN definitions /\ definitions[k].AliasOf # NoDefinition

\* C11: a Get of an alias key on the container GetContainer returned fails
\* with the visibility error naming the alias key when the alias is private,
\* whatever its target is, and never fails with a visibility error when the
\* alias is not private, also when its target is.
C11_AliasOwnVisibility ==
    \A t \in Threads :
        (outcome[t].call.op = "Get" /\ IsAlias(outcome[t].call.key))
            => IF definitions[outcome[t].call.key].Private
               THEN /\ outcome[t].kind = "panic"
                    /\ outcome[t].val = <<"private", outcome[t].call.key, FALSE>>
               ELSE ~(outcome[t].kind = "panic" /\ outcome[t].val[1] = "private")

\* A Get of a public alias of a private definition has returned a value, and
\* a Get of that private definition has failed.
C11_Witness ==
    \E t, u \in Threads :
        /\ outcome[t].call.op = "Get" /\ IsAlias(outcome[t].call.key)
        /\ ~definitions[outcome[t].call.key].Private
        /\ definitions[outcome[t].call.key].AliasOf.Private
        /\ outcome[t].kind = "value"
        /\ outcome[u].call.op = "Get" /\ outcome[u].call.key = A
        /\ outcome[u].kind = "panic" /\ outcome[u].val = <<"private", A, FALSE>>

\* C19, as the specification states it: a Get of the alias b that returns a
\* value returns a value made by the factory that key a names.
C19_AliasFollowsTarget ==
    \A t \in Threads :
        (/\ outcome[t].call.op = "Get"
         /\ outcome[t].call.key = B
         /\ outcome[t].kind = "value"
         /\ IsAlias(B))
           => outcome[t].val[1] = definitions[A].Factory.id

\* C19, as the code has it: a Get of the alias b that returns a value returns
\* a value made by the factory of the definition that key a named when
\* SetAlias(b, a) was called, whatever key a names now.
C19_AliasKeepsFactory ==
    \A t \in Threads :
        (/\ outcome[t].call.op = "Get"
         /\ outcome[t].call.key = B
         /\ outcome[t].kind = "value"
         /\ IsAlias(B))
           => /\ outcome[t].val[1] = definitions[B].AliasOf.Factory.id
              /\ outcome[t].val[1] = A

\* Get(b) has returned a value of the first factory of a in a registry in
\* which a was registered again after SetAlias(b, a).
C19_Witness ==
    /\ IsAlias(B)
    /\ definitions[A].Factory.id = Again
    /\ \E t \in Threads :
          /\ outcome[t].call.op = "Get"
          /\ outcome[t].call.key = B
          /\ outcome[t].kind = "value"
          /\ outcome[t].val[1] = A

\* C33: whether Get of an alias caches follows the shared tag of the alias,
\* whatever the tag of its target: the factory has run at most once in a
\* container under a shared alias, and its instance is cached under the key
\* of the alias; a non-shared alias has no entry in a cache, and every Get
\* of it that does not panic runs the factory.
C33_AliasCachesByOwnTag ==
    /\ [](\A c \in 1 .. Len(containers) : \A k \in DOMAIN definitions :
            IsAlias(k) =>
               /\ definitions[k].Shared => Count(built[c], k) <= 1
               /\ ~definitions[k].Shared => k \notin DOMAIN containers[c].instances)
    /\ [][\A t \in Threads :
            (/\ outcome[t].call.op = "Get"
             /\ IsAlias(outcome[t].call.key)
             /\ outcome[t].kind = "running"
             /\ outcome'[t].kind = "value")
               => LET k == outcome[t].call.key
                      c == outcome[t].call.c
                  IN  IF definitions[k].Shared
                      THEN /\ k \in DOMAIN containers'[c].instances
                           /\ outcome'[t].val = containers'[c].instances[k]
                      ELSE outcome'[t].val[1] = definitions[k].Factory.id]_vars
    /\ [][\A t \in Threads :
            (/\ ncalls' = ncalls + 1
             /\ outcome'[t].n = ncalls'
             /\ outcome'[t].call.op = "Get"
             /\ IsAlias(outcome'[t].call.key)
             /\ ~definitions[outcome'[t].call.key].Shared
             /\ outcome'[t].kind # "panic")
               => LET k == outcome'[t].call.key
                      c == outcome'[t].call.c
                  IN  Count(built'[c], k) = Count(built[c], k) + 1]_vars

InCheckConstructStore(t, c) ==
    \E i \in 1 .. Len(stack[t]) :
        /\ stack[t][i].op = "Get"
        /\ stack[t][i].c = c
        /\ stack[t][i].locked
        /\ stack[t][i].pc = "factory"

\* C26: no two goroutines are at once between the check and the store of a
\* shared Get on the instances of one container.
C26_OneLockPerCache ==
    \A c \in 1 .. Len(containers) : \A t, u \in Threads :
        (InCheckConstructStore(t, c) /\ InCheckConstructStore(u, c)) => t = u

-----------------------------------------------------------------------------
(* SpecSessions: several containers of one builder.  The builder holds the *)
(* chain b -> c with any choice of shared keys and has returned its first  *)
(* container; goroutines ask for more containers and call Get.             *)

RECURSIVE RunSweep(_, _)
RunSweep(w, t) == IF w.stack[t] = <<>> THEN w ELSE RunSweep(Sweep(w, t), t)

\* b.GetContainer() by goroutine t, run to its end on a builder that has no
\* provider and no resolver.
GetContainerDone(w, t) ==
    RunSweep(GetContainerLocked(
                 [w EXCEPT !.stack[t] = <<[op |-> "GetContainer", pc |-> "lock",
                                           cbs |-> <<>>, i |-> 0]>>], t), t)

\* The state is w, and no call of the model's budget has been made.
StartFrom(w) ==
    /\ definitions = w.definitions
    /\ providers = w.providers
    /\ resolvers = w.resolvers
    /\ resolved = w.resolved
    /\ lock = w.lock
    /\ containers = w.containers
    /\ view = w.view
    /\ stack = w.stack
    /\ outcome = [t \in Threads |-> NoCall]
    /\ spy = w.spy
    /\ built = w.built
    /\ ran = w.ran
    /\ history = w.history
    /\ ncalls = 0

InitSessions ==
    \E sh \in SUBSET {B, C} :
        StartFrom(GetContainerDone(
            [NewWorld EXCEPT !.definitions = Registry("chain", sh, {}, <<B, C>>)], 1))

NextSessions ==
    \E t \in Threads :
        \/ GetContainerCall(t, MaxContainers)
        \/ GetContainerLockStep(t)
        \/ GetCall(t, {B, C})
        \/ GetLockStep(t)
        \/ FactoryStep(t)

SpecSessions == InitSessions /\ [][NextSessions]_vars

\* C14: the container a GetContainer call returns has no instance, whatever
\* the containers returned before hold; an instance a container holds was
\* made by a factory invocation of that container, no two containers hold the
\* same instance, and no Get on one container has returned the instance that
\* another container holds.
C14_SessionsShareNothing ==
    /\ [](\A c \in 1 .. Len(containers) : \A k \in DOMAIN containers[c].instances :
            /\ Count(built[c], k) >= 1
            /\ \A d \in 1 .. Len(containers) :
                  (d # c /\ k \in DOMAIN containers[d].instances)
                     => containers[d].instances[k] # containers[c].instances[k])
    /\ [](\A t \in Threads :
            (outcome[t].call.op = "Get" /\ outcome[t].kind = "value")
               => \A d \in 1 .. Len(containers) :
                     (d # outcome[t].call.c
                          /\ outcome[t].call.key \in DOMAIN containers[d].instances)
                        => containers[d].instances[outcome[t].call.key] # outcome[t].val)
    /\ [][Len(containers') > Len(containers)
             => /\ containers'[Len(containers')].instances = EmptyMap
                /\ SubSeq(containers', 1, Len(containers)) = containers]_vars

\* Two containers hold an instance of the shared key c, the first the value
\* of the first invocation of its factory, the second that of the second.
C14_Witness ==
    /\ Len(containers) = 2
    /\ C \in DOMAIN containers[1].instances /\ containers[1].instances[C] = <<C, 1>>
    /\ C \in DOMAIN containers[2].instances /\ containers[2].instances[C] = <<C, 2>>
    /\ Count(built[1], C) = 1 /\ Count(built[2], C) = 1

-----------------------------------------------------------------------------
(* SpecBuild: MustBuild.  The builder holds the chain b -> c with any      *)
(* choice of shared and of private keys and has returned one container, on *)
(* which goroutines call MustBuild and Get(c).                             *)

\* MustBuild: the frame of the loop; keys are the keys of the definitions
\* that are not private, in the order the range visits them.
MustBuild(w, t, c, dry, keys) ==
    [w EXCEPT !.stack[t] = Append(@,
        [op |-> "MustBuild", pc |-> "loop", c |-> c, dry |-> dry, keys |-> keys, i |-> 1])]

\* A MustBuild that empties the cache of the container when it returns,
\* dry or not.
MustBuildLoopEmptiesCache(w, t) ==
    LET fr == Top(w.stack[t])
    IN  IF fr.i <= Len(fr.keys)
        THEN Get(w, t, fr.c, FALSE, fr.keys[fr.i])
        ELSE Return([w EXCEPT !.containers[fr.c].instances = EmptyMap],
                    t, Below(w.stack[t]), <<>>)

\* One turn of the loop: Get on the container itself.  After the loop a dry
\* build assigns a new container to the local variable c and returns: the
\* container of the caller is not written.
MustBuildLoop(w, t) ==
    LET fr == Top(w.stack[t])
    IN  IF fr.i <= Len(fr.keys)
        THEN Get(w, t, fr.c, FALSE, fr.keys[fr.i])
        ELSE Return(w, t, Below(w.stack[t]), <<>>)

\* c.MustBuild(dry) on a container GetContainer has returned
MustBuildCall(t) ==
    /\ MayCall(t)
    /\ \E c \in 1 .. Len(containers), dry \in Bools :
       \E keys \in Orders({k \in DOMAIN definitions : ~definitions[k].Private}) :
          Apply(MustBuild(Begin(World, t, [op |-> "MustBuild", c |-> c, dry |-> dry]),
                          t, c, dry, keys))

MustBuildStep(t) ==
    /\ At(t, "MustBuild", "loop")
    /\ Apply(MustBuildLoop(World, t))

InitBuild ==
    \E sh \in SUBSET {B, C}, pr \in SUBSET {B, C} :
        StartFrom(GetContainerDone(
            [NewWorld EXCEPT !.definitions = Registry("chain", sh, pr, <<B, C>>)], 1))

NextBuild ==
    \E t \in Threads :
        \/ MustBuildCall(t)
        \/ MustBuildStep(t)
        \/ GetCall(t, {C})
        \/ GetLockStep(t)
        \/ FactoryStep(t)

SpecBuild == InitBuild /\ [][NextBuild]_vars

\* C15: at the step in which a call of MustBuild(true) returns, the container
\* it was called on holds no instance.
C15_DryBuildEmptiesCache ==
    [][\A t \in Threads :
          (/\ outcome[t].call.op = "MustBuild"
           /\ outcome[t].call.dry
           /\ outcome[t].kind = "running"
           /\ outcome'[t].kind = "value")
             => containers'[outcome[t].call.c].instances = EmptyMap]_vars

-----------------------------------------------------------------------------
(* SpecKeep: MustBuild(false) and Get on one container of the chain b -> c *)
(* ("preserves instances if not dry run": s1 gets s2, which is shared and  *)
(* private).  c is shared, private or public; b is shared or not.          *)

\* c.MustBuild(false) on a container GetContainer has returned
MustBuildKeepCall(t) ==
    /\ MayCall(t)
    /\ \E c \in 1 .. Len(containers) :
       \E keys \in Orders({k \in DOMAIN definitions : ~definitions[k].Private}) :
          Apply(MustBuild(Begin(World, t, [op |-> "MustBuild", c |-> c, dry |-> FALSE]),
                          t, c, FALSE, keys))

InitKeep ==
    \E sh \in {{C}, {B, C}}, pr \in SUBSET {C} :
        StartFrom(GetContainerDone(
            [NewWorld EXCEPT !.definitions = Registry("chain", sh, pr, <<B, C>>)], 1))

NextKeep ==
    \E t \in Threads :
        \/ MustBuildKeepCall(t)
        \/ MustBuildStep(t)
        \/ GetCall(t, {B, C})
        \/ GetLockStep(t)
        \/ FactoryStep(t)

SpecKeep == InitKeep /\ [][NextKeep]_vars

\* The shared keys a sweep of MustBuild constructs or finds constructed: the
\* public ones and the ones a public key depends on.
SweptShared ==
    {k \in DOMAIN definitions :
        /\ definitions[k].Shared
        /\ \E p \in DOMAIN definitions :
              ~definitions[p].Private /\ k \in {p} \cup ReachFrom(definitions, p)}

\* C32: at the step in which a call of MustBuild(false) returns, the cache of
\* the container holds every shared key of the sweep, public or a private
\* dependency; and no step removes a key from a cache or invokes the factory
\* of a key that is in the cache, so a later Get of such a key returns the
\* cached instance.
C32_BuildKeepsInstances ==
    /\ [][\A t \in Threads :
            (/\ outcome[t].call.op = "MustBuild"
             /\ ~outcome[t].call.dry
             /\ outcome[t].kind = "running"
             /\ outcome'[t].kind = "value")
               => SweptShared \subseteq DOMAIN containers'[outcome[t].call.c].instances]_vars
    /\ [][\A c \in 1 .. Len(containers) : \A k \in DOMAIN containers[c].instances :
            /\ k \in DOMAIN containers'[c].instances
            /\ Count(built'[c], k) = Count(built[c], k)]_vars

\* Get(c) built c; then MustBuild(false) built b, found c and returned; then
\* a Get(b) called after it has returned b, whose factory has run once.
C32_Witness ==
    /\ definitions[B].Shared
    /\ definitions[C].Shared
    /\ history.calls = {[op |-> "Get", c |-> 1, key |-> C],
                        [op |-> "MustBuild", c |-> 1, dry |-> FALSE],
                        [op |-> "Get", c |-> 1, key |-> B]}
    /\ outcome[2].call.op = "MustBuild"
    /\ outcome[2].kind = "value"
    /\ outcome[1].call.op = "Get"
    /\ outcome[1].call.key = B
    /\ outcome[1].kind = "value"
    /\ outcome[1].n > outcome[2].n
    /\ outcome[1].during = {}
    /\ Count(built[1], B) = 1
    /\ Count(built[1], C) = 1
    /\ {B, C} \subseteq DOMAIN containers[1].instances

-----------------------------------------------------------------------------
(* SpecRegistry: registration.  Goroutines call the setters and SetAlias   *)
(* on a new builder, which is never sealed.                                *)

\* The calls the program makes: a is a factory; b is a value, a factory, an
\* injectable or an alias of a, the alias with the key "b" or "b #private".
RegistryCalls ==
    {SetFactoryCall(A, Func(A, <<>>)),
     SetValueCall(B, "v"),
     SetFactoryCall(B, Func(B, <<>>)),
     SetInjectableCall(B, <<A>>),
     SetAliasCall(B, A),
     SetAliasCall(RawKey(B, FALSE, TRUE, FALSE), A)}

InitRegistry == NewContainerBuilder /\ NoCallYet /\ definitions = EmptyMap

NextRegistry ==
    \E t \in Threads :
        \/ BuilderCallBy(t, RegistryCalls)
        \/ GuardStep(t)
        \/ WriteStep(t)

SpecRegistry == InitRegistry /\ [][NextRegistry]_vars

\* Goroutine t issues a call in this step.
Calls(t) == ncalls' = ncalls + 1 /\ outcome'[t].n = ncalls'

\* The key a call registers: the text of its key before any '#'.
BareKey(call) == parseKey(call.key).key

\* Key k names a definition that is not an alias / that is an alias.
NamesReal(k) == k \in DOMAIN definitions /\ definitions[k].AliasOf = NoDefinition

NamesAlias(k) == k \in DOMAIN definitions /\ definitions[k].AliasOf # NoDefinition

\* C16: a call of SetAlias whose bare key names a definition that is not an
\* alias panics, and the definitions are as they were.
C16_AliasNeverReplacesReal ==
    [][\A t \in Threads :
          (/\ Calls(t)
           /\ outcome'[t].call.op = "SetAlias"
           /\ NamesReal(BareKey(outcome'[t].call)))
             => /\ outcome'[t].kind = "panic"
                /\ definitions' = definitions]_vars

\* The factory a setter call registers.
FactoryOf(call) ==
    CASE call.op = "SetValue" -> ValueFactory(call.value)
      [] call.op = "SetFactory" -> call.factory
      [] call.op = "SetInjectable" -> InjectFactory(call.fields)

\* C17: a setter or SetAlias called on a key that names an alias does not
\* panic (SetAlias provided its target is a key); when the write of SetValue,
\* SetFactory or SetInjectable replaces an alias, the key maps to a
\* definition with no AliasOf and with the factory of the call; when the
\* write of SetAlias replaces an alias, the key maps to an alias of the
\* target of the call.
C17_AliasGivesWay ==
    [][\A t \in Threads :
          /\ (/\ Calls(t)
              /\ NamesAlias(BareKey(outcome'[t].call))
              /\ outcome'[t].call.op = "SetAlias" => outcome'[t].call.def \in DOMAIN definitions)
                => outcome'[t].kind = "running"
          /\ (/\ At(t, "set", "write") /\ stack'[t] = <<>>
              /\ NamesAlias(Top(stack[t]).pending.key))
                => LET k == Top(stack[t]).pending.key
                       call == outcome[t].call
                   IN  /\ outcome'[t].kind = "value"
                       /\ k = BareKey(call)
                       /\ k \in DOMAIN definitions'
                       /\ IF call.op = "SetAlias"
                          THEN /\ definitions'[k].Kind = TagAlias
                               /\ definitions'[k].AliasOf = Top(stack[t]).aliased
                               /\ definitions'[k].AliasOf # NoDefinition
                          ELSE /\ definitions'[k].AliasOf = NoDefinition
                               /\ definitions'[k].Factory = FactoryOf(call)]_vars

\* SetAlias has made b an alias and has returned, a setter called on b has
\* returned too, and b names a definition that is not an alias: the setter
\* has replaced the alias.
C17_Witness ==
    /\ NamesReal(B)
    /\ \E t, u \in Threads :
          /\ outcome[t].kind = "value"
          /\ outcome[t].call.op = "SetAlias"
          /\ BareKey(outcome[t].call) = B
          /\ outcome[u].kind = "value"
          /\ outcome[u].call.op \in {"SetValue", "SetFactory", "SetInjectable"}
          /\ BareKey(outcome[u].call) = B

\* C18: a call of SetAlias whose target is not a key of the definitions
\* panics, and the definitions are as they were; the AliasOf of an alias is a
\* definition with the alias's factory.
C18_AliasTargetMustExist ==
    /\ [][\A t \in Threads :
            (/\ Calls(t)
             /\ outcome'[t].call.op = "SetAlias"
             /\ outcome'[t].call.def \notin DOMAIN definitions)
               => /\ outcome'[t].kind = "panic"
                  /\ definitions' = definitions]_vars
    /\ [](\A k \in DOMAIN definitions :
            definitions[k].AliasOf # NoDefinition
               => definitions[k].Factory = definitions[k].AliasOf.Factory)

\* SetAlias(b, a) has panicked for want of a, and a was defined later: b is
\* no key.
C18_Witness ==
    /\ A \in DOMAIN definitions
    /\ B \notin DOMAIN definitions
    /\ \E t \in Threads :
          /\ outcome[t].call.op = "SetAlias"
          /\ outcome[t].kind = "panic"
          /\ outcome[t].val = <<"does not exist and alias cannot be set", A>>

-----------------------------------------------------------------------------
(* SpecNested: aliases of aliases.  On a new builder goroutines register   *)
(* the factory a, and aliases of a and of one another.                     *)

NestedCalls ==
    {SetFactoryCall(A, Func(A, <<>>)),
     SetAliasCall(B, A),
     SetAliasCall(C, B),
     SetAliasCall(B, C)}

InitNested == NewContainerBuilder /\ NoCallYet /\ definitions = EmptyMap

NextNested ==
    \E t \in Threads :
        \/ BuilderCallBy(t, NestedCalls)
        \/ GuardStep(t)
        \/ WriteStep(t)

SpecNested == InitNested /\ [][NextNested]_vars

\* C35: the aliasOf of a definition of the registry is a definition that has
\* no aliasOf itself.
C35_AliasOfIsNotAnAlias ==
    \A k \in DOMAIN definitions :
        definitions[k].AliasOf # NoDefinition
            => definitions[k].AliasOf.AliasOf = NoDefinition

-----------------------------------------------------------------------------
(* SpecTagged: the tag query.  The builder holds a, b and c, registered by *)
(* SetFactory with keys such as "b #t=x #priority=1" (a without the tag t, *)
(* b and c with it), and has returned one container; goroutines call       *)
(* GetTaggedKeys on the builder and GetTaggedBy on the container.          *)

ValueX == <<"x">>
ValueY == <<"y">>
ValueZ == <<"z">>

\* The key as the program writes it: k, the tag t with a value unless the
\* value is none, a priority, and shared or not.
TaggedKey(k, value, priority, shared) ==
    k \o (IF value = <<>> THEN <<>> ELSE <<" ", "#">> \o TagT \o <<"=">> \o value)
      \o <<" ", "#">> \o TagPriority \o <<"=">> \o priority
      \o (IF shared THEN <<" ", "#">> \o TagShared ELSE <<>>)

\* c.builder.GetTaggedKeys(tag, values), called by the program: it reads the
\* definitions and returns.
GetTaggedKeysCall(t, tags, choices) ==
    /\ MayCall(t)
    /\ \E tag \in tags, values \in choices :
       \E keys \in GetTaggedKeys(definitions, tag, values) :
          Apply(Return(Begin(World, t, [op |-> "GetTaggedKeys", tag |-> tag,
                                        values |-> values]),
                       t, <<>>, keys))

\* c.GetTaggedBy(tag, values...) on a container GetContainer has returned
GetTaggedByWith(t, tags, choices) ==
    /\ MayCall(t)
    /\ \E c \in 1 .. Len(containers), tag \in tags, values \in choices :
       \E keys \in GetTaggedKeys(definitions, tag, values) :
          Apply(GetTaggedBy(Begin(World, t, [op |-> "GetTaggedBy", c |-> c, tag |-> tag,
                                             values |-> values]),
                            t, c, FALSE, keys))

ValueChoices == {<<>>, <<ValueY, ValueX>>}

InitTagged ==
    \E va \in {<<>>}, vb \in {ValueX, ValueZ}, vc \in {ValueX} :
    \E pa \in {<<"3">>}, pb \in {<<"0">>, <<"1">>, <<"2">>}, pc \in {<<"1">>} :
        StartFrom(GetContainerDone(
            After(<<SetFactoryCall(TaggedKey(A, va, pa, FALSE), Func(A, <<>>)),
                    SetFactoryCall(TaggedKey(B, vb, pb, FALSE), Func(B, <<>>)),
                    SetFactoryCall(TaggedKey(C, vc, pc, TRUE), Func(C, <<>>))>>), 1))

NextTagged ==
    \E t \in Threads :
        \/ GetTaggedKeysCall(t, {TagT}, ValueChoices)
        \/ GetTaggedByWith(t, {TagT}, ValueChoices)
        \/ GetTaggedByStep(t)
        \/ GetLockStep(t)
        \/ FactoryStep(t)

SpecTagged == InitTagged /\ [][NextTagged]_vars

\* The keys whose factories made the values vals.
KeysOf(vals) == [i \in 1 .. Len(vals) |-> vals[i][1]]

\* keys are the keys whose definition carries tag, with one of the values
\* when values are given, each once, none before a key of higher priority.
ExactByPriority(keys, tag, values) ==
    /\ Range(keys) = {k \in DOMAIN definitions :
                        /\ tag \in DOMAIN definitions[k].Tags
                        /\ values # <<>> =>
                              \E i \in 1 .. Len(values) : values[i] = definitions[k].Tags[tag]}
    /\ \A i, j \in 1 .. Len(keys) : i # j => keys[i] # keys[j]
    /\ \A i, j \in 1 .. Len(keys) :
          i < j => definitions[keys[i]].Priority >= definitions[keys[j]].Priority

\* C20: what a call of GetTaggedKeys has returned is exactly the keys that
\* carry the tag (with one of the values, when values are given), each once,
\* no key before a key of strictly higher priority; the keys GetTaggedBy
\* gets are such a list, and what it has returned is the values of those
\* keys in that order: value i was made by the factory of key i.
C20_TaggedKeysByPriority ==
    /\ [](\A t \in Threads :
            /\ (outcome[t].call.op = "GetTaggedKeys" /\ outcome[t].kind = "value")
                  => ExactByPriority(outcome[t].val, outcome[t].call.tag,
                                     outcome[t].call.values)
            /\ (outcome[t].call.op = "GetTaggedBy" /\ outcome[t].kind = "value")
                  => ExactByPriority(KeysOf(outcome[t].val), outcome[t].call.tag,
                                     outcome[t].call.values))
    /\ [][\A t \in Threads :
            (At(t, "GetTaggedBy", "loop") /\ stack'[t] = <<>>)
               => /\ outcome'[t].kind = "value"
                  /\ Len(outcome'[t].val) = Len(Top(stack[t]).keys)
                  /\ \A i \in 1 .. Len(outcome'[t].val) :
                        outcome'[t].val[i][1] =
                           definitions[Top(stack[t]).keys[i]].Factory.id]_vars

\* GetTaggedBy("t") has returned the value of b, of priority 2, before that
\* of c, of priority 1; a, of priority 3, does not carry the tag.
C20_Witness ==
    /\ definitions[A].Priority = 3
    /\ definitions[B].Priority = 2
    /\ definitions[C].Priority = 1
    /\ \E t \in Threads :
          /\ outcome[t].call.op = "GetTaggedBy"
          /\ outcome[t].call.values = <<>>
          /\ outcome[t].kind = "value"
          /\ KeysOf(outcome[t].val) = <<B, C>>

\* The order of the SetFactory calls of InitTagged.
RegistrationOrder == <<A, B, C>>

\* Key x was registered before key y.
RegisteredBefore(x, y) ==
    \E i, j \in 1 .. Len(RegistrationOrder) :
        i < j /\ RegistrationOrder[i] = x /\ RegistrationOrder[j] = y

\* C21: in what a call of GetTaggedKeys has returned, of two keys of equal
\* priority the one registered first comes first.
C21_TiesInRegistrationOrder ==
    \A t \in Threads :
        (outcome[t].call.op = "GetTaggedKeys" /\ outcome[t].kind = "value")
           => \A i, j \in 1 .. Len(outcome[t].val) :
                 (/\ i < j
                  /\ definitions[outcome[t].val[i]].Priority
                        = definitions[outcome[t].val[j]].Priority)
                    => RegisteredBefore(outcome[t].val[i], outcome[t].val[j])

-----------------------------------------------------------------------------
(* SpecFail: failures of resolution.  The builder holds one of the         *)
(* registries of the tests of GetTaggedBy: tagged keys of which one is     *)
(* private, or a cycle closed through GetTaggedBy; it has returned one     *)
(* container, on which goroutines call Get(a) and GetTaggedBy.             *)

\* The key k with the tag t, of the value given unless it is none.
WithTag(k, value) ==
    k \o <<" ", "#">> \o TagT \o (IF value = <<>> THEN <<>> ELSE <<"=">> \o value)

GetTaggedByOf(tag, values) == [op |-> "GetTaggedBy", tag |-> tag, values |-> values]

\* "panics if some service is private": b, shared, and c, private, carry t.
PrivateTagged ==
    <<SetFactoryCall(A, Func(A, <<>>)),
      SetFactoryCall(WithTag(B, <<>>) \o <<" ", "#">> \o TagShared, Func(B, <<>>)),
      SetFactoryCall(WithTag(C, <<>>) \o <<" ", "#">> \o TagPrivate, Func(C, <<>>))>>

\* "panics if circular reference used for dependencies": a gets the keys
\* tagged t, which is b; b gets c, c gets a.
CycleThroughTag ==
    <<SetFactoryCall(A, Func(A, <<GetTaggedByOf(TagT, <<>>)>>)),
      SetFactoryCall(WithTag(B, <<>>), Func(B, <<GetOf(C)>>)),
      SetFactoryCall(C, Func(C, <<GetOf(A)>>))>>

\* "panics if circular dependencies": a gets b, b gets c, c gets a.
CycleOfThree ==
    <<SetFactoryCall(A, Func(A, <<GetOf(B)>>)),
      SetFactoryCall(B, Func(B, <<GetOf(C)>>)),
      SetFactoryCall(C, Func(C, <<GetOf(A)>>))>>

InitFail ==
    \E calls \in {PrivateTagged, CycleThroughTag, CycleOfThree} :
        StartFrom(GetContainerDone(After(calls), 1))

NextFail ==
    \E t \in Threads :
        \/ GetCall(t, {A})
        \/ GetTaggedByWith(t, {TagT}, {<<>>})
        \/ GetTaggedByStep(t)
        \/ GetLockStep(t)
        \/ FactoryStep(t)

SpecFail == InitFail /\ [][NextFail]_vars

\* C22: when the loop of a GetTaggedBy called on the container comes to a
\* private key, the call panics with the visibility error of that key, and
\* no key before it in the list is private; a GetTaggedBy that has returned a
\* list had no private key and no key on a cycle among its keys; and when a
\* Get made for a GetTaggedBy finds a circular reference, the GetTaggedBy
\* call ends with that panic.
C22_TaggedByFailsOnPrivateOrCycle ==
    /\ [][\A t \in Threads :
            (/\ At(t, "GetTaggedBy", "loop")
             /\ stack'[t] # stack[t]
             /\ Len(stack[t]) = 1
             /\ Top(stack[t]).i <= Len(Top(stack[t]).keys)
             /\ definitions[Top(stack[t]).keys[Top(stack[t]).i]].Private)
               => LET fr == Top(stack[t])
                  IN  /\ outcome'[t].kind = "panic"
                      /\ outcome'[t].val = <<"private", fr.keys[fr.i], FALSE>>
                      /\ stack'[t] = <<>>
                      /\ \A j \in 1 .. fr.i - 1 : ~definitions[fr.keys[j]].Private]_vars
    /\ [](\A t \in Threads :
            (outcome[t].call.op = "GetTaggedBy" /\ outcome[t].kind = "value")
               => \A k \in TaggedSet(definitions, outcome[t].call.tag, outcome[t].call.values) :
                     /\ ~definitions[k].Private
                     /\ AcyclicFrom(definitions, k))
    /\ [][\A t \in Threads :
            (/\ stack[t] # <<>>
             /\ stack[t][1].op = "GetTaggedBy"
             /\ stack'[t] = <<>>)
               => \/ outcome'[t].kind = "value" /\ Len(outcome'[t].val) = Len(stack[t][1].keys)
                  \/ outcome'[t].kind = "panic" /\ outcome'[t].val[1] = "private"
                  \/ /\ outcome'[t].kind = "panic"
                     /\ outcome'[t].val[1] = "circular reference"
                     /\ ~AcyclicFrom(definitions, stack[t][1].keys[stack[t][1].i])]_vars

\* GetTaggedBy("t") has panicked on the private key c after the Get of a
\* public key before it.
C22_Witness ==
    \E t \in Threads :
        /\ outcome[t].call.op = "GetTaggedBy"
        /\ outcome[t].kind = "panic"
        /\ outcome[t].val = <<"private", C, FALSE>>
        /\ Count(spy, B) >= 1

\* The keys of the Get frames of a stack whose factories are running,
\* outermost first.
ChainOf(stk) ==
    LET frames == SelectSeq(stk, LAMBDA fr : fr.op = "Get" /\ fr.pc = "factory")
    IN  [i \in 1 .. Len(frames) |-> frames[i].key]

\* C30: when a call ends with the circular-reference panic, the panic names
\* the key of the outermost Get whose factory was running, which is the key
\* asked for when the call is a Get, and the key of the innermost one, whose
\* factory asked for a key already under construction; so Get(a) on the cycle
\* a -> b -> c -> a, direct or through GetTaggedBy, names a and c.
C30_CircularErrorNamesFirstAndLast ==
    [][\A t \in Threads :
          (/\ outcome[t].kind = "running"
           /\ outcome'[t].kind = "panic"
           /\ outcome'[t].val[1] = "circular reference")
             => LET chain == ChainOf(stack[t])
                IN  /\ chain # <<>>
                    /\ outcome'[t].val = <<"circular reference", chain[1], chain[Len(chain)]>>
                    /\ outcome[t].call.op = "Get" => outcome'[t].val = <<"circular reference", A, C>>
                    /\ outcome[t].call.op = "GetTaggedBy"
                          => outcome'[t].val = <<"circular reference", B, A>>]_vars

C30_Witness ==
    /\ GetTaggedKeys(definitions, TagT, <<>>) = {<<B>>}
    /\ \E t1, t2 \in Threads :
          /\ outcome[t1].call.op = "Get"
          /\ outcome[t1].call.key = A
          /\ outcome[t1].val = <<"circular reference", A, C>>
          /\ outcome[t2].call.op = "GetTaggedBy"
          /\ outcome[t2].val = <<"circular reference", B, A>>

-----------------------------------------------------------------------------
(* SpecLookup: the read accessors.  The builder holds a shared a, with or  *)
(* without an alias b of it, never a key c, and has returned one           *)
(* container; goroutines call GetDefinition on the builder and Get on the  *)
(* container.                                                              *)

\* b.GetDefinition(key), called by the program: it reads the map and returns.
GetDefinitionCall(t, keys) ==
    /\ MayCall(t)
    /\ \E key \in keys :
          Apply(Return(Begin(World, t, [op |-> "GetDefinition", key |-> key]),
                       t, <<>>, GetDefinition(definitions, key)))

InitLookup ==
    \E calls \in {<<SetFactoryCall(RawKey(A, TRUE, FALSE, FALSE), Func(A, <<>>))>>,
                  <<SetFactoryCall(RawKey(A, TRUE, FALSE, FALSE), Func(A, <<>>)),
                    SetAliasCall(B, A)>>} :
        StartFrom(GetContainerDone(After(calls), 1))

NextLookup ==
    \E t \in Threads :
        \/ GetDefinitionCall(t, Keys)
        \/ GetCall(t, Keys)
        \/ GetLockStep(t)
        \/ FactoryStep(t)

SpecLookup == InitLookup /\ [][NextLookup]_vars

\* C23, as the specification states it: a call of GetDefinition on a key
\* that has no definition ends with an error.
C23_MissingKeyIsError ==
    \A t \in Threads :
        (outcome[t].call.op = "GetDefinition" /\ outcome[t].call.key \notin DOMAIN definitions)
           => outcome[t].kind = "panic"

\* C23, as the code has it: a call of GetDefinition returns, the definition
\* of the key or, for a key that has none, nil; it is a Get of a key that
\* has no definition that fails, on the nil it is given.
C23_MissingKeyIsNil ==
    \A t \in Threads :
        /\ outcome[t].call.op = "GetDefinition"
              => /\ outcome[t].kind = "value"
                 /\ outcome[t].val = IF outcome[t].call.key \in DOMAIN definitions
                                     THEN definitions[outcome[t].call.key]
                                     ELSE NoDefinition
        /\ (outcome[t].call.op = "Get" /\ outcome[t].call.key \notin DOMAIN definitions)
              => /\ outcome[t].kind = "panic"
                 /\ outcome[t].val = <<"nil pointer dereference", outcome[t].call.key>>

\* GetDefinition(c) has returned nil and Get(c) has panicked, c being no key.
C23_Witness ==
    /\ C \notin DOMAIN definitions
    /\ \E t, u \in Threads :
          /\ outcome[t].call = [op |-> "GetDefinition", key |-> C]
          /\ outcome[t].val = NoDefinition
          /\ outcome[u].call.op = "Get"
          /\ outcome[u].call.key = C
          /\ outcome[u].kind = "panic"

-----------------------------------------------------------------------------
(* SpecKinds: the kind tags.  Goroutines call the setters and SetAll on a  *)
(* new builder with kind tags in the key, in the tags given, or in both.   *)

KeyWith(k, tag) == k \o <<" ", "#">> \o tag

KindCalls ==
    {SetFactoryCall(A, Func(A, <<>>)),
     SetFactoryCall(KeyWith(A, TagValue), Func(A, <<>>)),
     [SetValueCall(B, "v") EXCEPT !.tags = <<TagAlias :> <<>>>>],
     [SetValueCall(B, "v") EXCEPT !.tags = <<TagValue :> <<"x">>>>],
     SetAliasCall(KeyWith(C, TagInject), A),
     SetInjectableCall(C, <<A>>),
     SetAllCall(<<[Key |-> KeyWith(KeyWith(B, TagFactory), TagValue),
                   Target |-> [type |-> "func", val |-> Func(B, <<>>)],
                   Tags |-> EmptyMap]>>),
     SetAllCall(<<[Key |-> KeyWith(C, TagAlias),
                   Target |-> [type |-> "string", val |-> A],
                   Tags |-> EmptyMap]>>)}

InitKinds == NewContainerBuilder /\ NoCallYet /\ definitions = EmptyMap

NextKinds ==
    \E t \in Threads :
        \/ BuilderCallBy(t, KindCalls)
        \/ SetAllStep(t)
        \/ GuardStep(t)
        \/ WriteStep(t)

SpecKinds == InitKinds /\ [][NextKinds]_vars

\* The kind tag a setter adds to the tags it is given.
ImplicitKind(op) ==
    CASE op = "SetValue" -> TagValue
      [] op = "SetFactory" -> TagFactory
      [] op = "SetInjectable" -> TagInject
      [] op = "SetAlias" -> TagAlias

\* The kind tags of a call: the one the setter adds, those of the tags it is
\* given and those written in the key; for SetAll those of its one binding.
KindsOf(call) ==
    IF call.op = "SetAll"
    THEN {k \in Range(kindTags) :
            k \in DOMAIN call.all[1].Tags \/ k \in DOMAIN parseKey(call.all[1].Key).tags}
    ELSE {k \in Range(kindTags) :
            \/ k = ImplicitKind(call.op)
            \/ \E i \in 1 .. Len(call.tags) : k \in DOMAIN call.tags[i]
            \/ k \in DOMAIN parseKey(call.key).tags}

\* C24: a call with two or more kind tags writes no definition, at no step,
\* and ends with a panic; every definition of the registry carries one kind
\* tag and no more, and its Kind is that tag.
C24_OneKindTag ==
    /\ [][\A t \in Threads :
            /\ (Calls(t) /\ Cardinality(KindsOf(outcome'[t].call)) >= 2)
                  => definitions' = definitions /\ outcome'[t].kind # "value"
            /\ (/\ stack[t] # <<>>
                /\ stack'[t] # stack[t]
                /\ Cardinality(KindsOf(outcome[t].call)) >= 2)
                  => /\ definitions' = definitions
                     /\ outcome'[t].kind # "value"
                     /\ stack'[t] = <<>> => outcome'[t].kind = "panic"]_vars
    /\ [](\A k \in DOMAIN definitions :
            /\ Cardinality(Range(kindTags) \cap DOMAIN definitions[k].Tags) = 1
            /\ definitions[k].Kind \in Range(kindTags) \cap DOMAIN definitions[k].Tags)

\* SetFactory("a #value", f) has panicked on its two kind tags while the
\* registry holds a definition.
C24_Witness ==
    /\ definitions # EmptyMap
    /\ \E t \in Threads :
          /\ outcome[t].call.op = "SetFactory"
          /\ Cardinality(KindsOf(outcome[t].call)) = 2
          /\ outcome[t].kind = "panic"
          /\ outcome[t].val[1] = "can't be used simultaneously"

\* C34: a definition of the registry has an aliasOf exactly when its kind is
\* alias, after any calls of SetValue, SetFactory, SetInjectable, SetAlias
\* and SetAll.
C34_AliasOfIffKindAlias ==
    \A k \in DOMAIN definitions :
        definitions[k].AliasOf # NoDefinition <=> definitions[k].Kind = TagAlias

\* SetAll has registered c as an alias of the factory a.
C34_Witness ==
    /\ {A, C} \subseteq DOMAIN definitions
    /\ definitions[A].Kind = TagFactory
    /\ definitions[A].AliasOf = NoDefinition
    /\ definitions[C].Kind = TagAlias
    /\ definitions[C].AliasOf # NoDefinition
    /\ definitions[C].Factory = definitions[A].Factory
    /\ \E t \in Threads : outcome[t].call.op = "SetAll" /\ outcome[t].kind = "value"

-----------------------------------------------------------------------------
(* SpecTags: the tags of a definition.  Goroutines call the setters on a   *)
(* new builder with tags in the key, in the map of tags given, or in both. *)

TagU == <<"u">>

FalseText == <<"f", "a", "l", "s", "e">>

\* "overwrites tags in key": f(b, "k4 #t4=v4", {"t4": "v44", "t5": "v5"})
TagCalls ==
    {[SetFactoryCall(WithTag(A, ValueX), Func(A, <<>>))
         EXCEPT !.tags = <<(TagT :> ValueY) @@ (TagU :> ValueZ)>>],
     [SetValueCall(B \o <<" ", "#">> \o TagU \o <<"=">> \o ValueX, "v")
         EXCEPT !.tags = <<TagT :> ValueY>>],
     [SetFactoryCall(KeyWith(A, TagShared), Func(A, <<>>))
         EXCEPT !.tags = <<TagShared :> FalseText>>],
     [SetAliasCall(WithTag(C, ValueX), A) EXCEPT !.tags = <<TagT :> ValueZ>>],
     SetInjectableCall(WithTag(C, ValueX), <<A>>)}

InitTags == NewContainerBuilder /\ NoCallYet /\ definitions = EmptyMap

NextTags ==
    \E t \in Threads :
        \/ BuilderCallBy(t, TagCalls)
        \/ GuardStep(t)
        \/ WriteStep(t)

SpecTags == InitTags /\ [][NextTags]_vars

\* The map of tags a call is given, and the tags written in its key.
ExplicitTags(call) == IF call.tags = <<>> THEN EmptyMap ELSE call.tags[1]

KeyTags(call) == parseKey(call.key).tags

\* C25: the definition a setter call writes carries every tag of the map it
\* was given, with the value of the map, also when the key gives the tag
\* another value; it carries every tag written only in the key, with the
\* value of the key unless the tag is the kind tag the setter adds itself.
C25_ExplicitTagsWin ==
    [][\A t \in Threads :
          (At(t, "set", "write") /\ stack'[t] # stack[t])
             => LET call == outcome[t].call
                    d == definitions'[BareKey(call)]
                IN  /\ BareKey(call) \in DOMAIN definitions'
                    /\ \A tag \in DOMAIN ExplicitTags(call) :
                          tag \in DOMAIN d.Tags /\ d.Tags[tag] = ExplicitTags(call)[tag]
                    /\ \A tag \in DOMAIN KeyTags(call) \ DOMAIN ExplicitTags(call) :
                          /\ tag \in DOMAIN d.Tags
                          /\ tag # ImplicitKind(call.op) => d.Tags[tag] = KeyTags(call)[tag]
                    /\ d.Shared = (TagShared \in DOMAIN d.Tags
                                      /\ d.Tags[TagShared] # FalseText)]_vars

\* SetFactory("a #t=x", f, {t: y, u: z}) has stored a with t=y and u=z, and
\* SetValue("b #u=x", v, {t: y}) has stored b with u=x and t=y.
C25_Witness ==
    /\ A \in DOMAIN definitions
    /\ B \in DOMAIN definitions
    /\ definitions[A].Tags[TagT] = ValueY
    /\ TagU \in DOMAIN definitions[A].Tags
    /\ definitions[B].Tags[TagU] = ValueX
    /\ definitions[B].Tags[TagT] = ValueY

-----------------------------------------------------------------------------
(* SpecRace: registration while the builder is being sealed.  Goroutines   *)
(* call setters and GetContainer on a new builder, in any interleaving.    *)

RaceCalls == {SetValueCall(A, "v"), SetFactoryCall(B, Func(B, <<>>)), SetAliasCall(C, A)}

InitRace == NewContainerBuilder /\ NoCallYet /\ definitions = EmptyMap

NextRace ==
    \E t \in Threads :
        \/ BuilderCallBy(t, RaceCalls)
        \/ GuardStep(t)
        \/ WriteStep(t)
        \/ GetContainerCall(t, MaxContainers)
        \/ GetContainerLockStep(t)
        \/ SweepStep(t)

SpecRace == InitRace /\ [][NextRace]_vars

\* C27: no step changes the definitions once the resolved flag is set.
C27_NoWriteAfterResolved ==
    [][resolved => definitions' = definitions]_vars

-----------------------------------------------------------------------------
(* SpecRecover: factories that fail, and factories that recover the panic  *)
(* of a Get they make and go on using the container they were given.  The  *)
(* factory of a tries b under a deferred recover(), then gets b again; the *)
(* factory of b panics.                                                    *)

TryGetOf(k) == [op |-> "TryGet", key |-> k]

SharedIf(k, sh) == IF k \in sh THEN k \o <<" ", "#">> \o TagShared ELSE k

RecoverCalls(sh) ==
    <<SetFactoryCall(SharedIf(A, sh), Func(A, <<TryGetOf(B), GetOf(B)>>)),
      SetFactoryCall(SharedIf(B, sh), Func(B, <<[op |-> "panic"]>>)),
      SetFactoryCall(C, Func(C, <<TryGetOf(B)>>))>>

InitRecover ==
    \E sh \in SUBSET {A, B} :
        StartFrom(GetContainerDone(After(RecoverCalls(sh)), 1))

NextRecover ==
    \E t \in Threads :
        \/ GetCall(t, {A, B, C})
        \/ GetLockStep(t)
        \/ FactoryStep(t)

SpecRecover == InitRecover /\ [][NextRecover]_vars

\* The keys whose factories a goroutine is running, outermost first.
Constructing(t) == ChainOf(stack[t])

\* C29: the loading stack of the view a goroutine is on holds the keys whose
\* factories are running on it and no other, so a construct that has ended,
\* by a return or by a panic, has left the stack as it found it; and a Get
\* that ends with the circular-reference panic was for a key that reaches a
\* cycle.
C29_LoadingRestoredOnFailure ==
    \A t \in Threads :
        /\ stack[t] # <<>> => view[t].loading = Constructing(t)
        /\ (/\ outcome[t].call.op = "Get"
            /\ outcome[t].call.key \in DOMAIN definitions
            /\ outcome[t].kind = "panic"
            /\ outcome[t].val[1] = "circular reference")
              => ~AcyclicFrom(definitions, outcome[t].call.key)

-----------------------------------------------------------------------------
(* SpecUnwind: Gets that fail on a sealed container, and Gets of another   *)
(* key on the same container.  a is shared and builds; Get(b) fails: b is  *)
(* private, or b is on a cycle with c, or b depends on c whose factory     *)
(* panics.                                                                 *)

Shared(k) == k \o <<" ", "#">> \o TagShared

PrivateKey ==
    <<SetFactoryCall(Shared(A), Func(A, <<>>)),
      SetFactoryCall(Shared(B) \o <<" ", "#">> \o TagPrivate, Func(B, <<>>)),
      SetFactoryCall(C, Func(C, <<>>))>>

CycleOfTwo ==
    <<SetFactoryCall(Shared(A), Func(A, <<>>)),
      SetFactoryCall(Shared(B), Func(B, <<GetOf(C)>>)),
      SetFactoryCall(C, Func(C, <<GetOf(B)>>))>>

FailingDependency ==
    <<SetFactoryCall(Shared(A), Func(A, <<>>)),
      SetFactoryCall(Shared(B), Func(B, <<GetOf(C)>>)),
      SetFactoryCall(Shared(C), Func(C, <<[op |-> "panic"]>>))>>

InitUnwind ==
    \E calls \in {PrivateKey, CycleOfTwo, FailingDependency} :
        StartFrom(GetContainerDone(After(calls), 1))

NextUnwind ==
    \E t \in Threads :
        \/ GetCall(t, {A, B})
        \/ GetLockStep(t)
        \/ FactoryStep(t)

SpecUnwind == InitUnwind /\ [][NextUnwind]_vars

\* Goroutine t is in a Get that locked the mutex of container c.
HoldsInGet(t, c) ==
    \E i \in 1 .. Len(stack[t]) :
        /\ stack[t][i].op = "Get"
        /\ stack[t][i].locked
        /\ ~stack[t][i].view
        /\ stack[t][i].c = c

\* C31: the mutex of a container is held only by a goroutine that is in a Get
\* which locked it, so it is free of a goroutine whose Get has failed; when a
\* Get ends with a panic, the cache of the container has no entry for a key
\* whose factory was running; and a Get of a, which depends on nothing, that
\* has ended has returned the value of a, also when it was called after a
\* Get failed on the same container.
C31_SessionUsableAfterFailure ==
    /\ [](\A c \in 1 .. Len(containers), t \in Threads :
            /\ containers[c].lock = t => HoldsInGet(t, c)
            /\ Idle(t) => ~view[t].lock)
    /\ [](\A t \in Threads :
            (outcome[t].call.op = "Get" /\ outcome[t].call.key = A
                 /\ outcome[t].kind # "running")
               => /\ outcome[t].kind = "value"
                  /\ outcome[t].val[1] = A)
    /\ [][\A t \in Threads :
            (outcome[t].kind = "running" /\ outcome'[t].kind = "panic")
               => /\ outcome'[t].val[1] \in {"private", "circular reference", "factory failed"}
                  /\ \A k \in Range(ChainOf(stack[t])) \cup {outcome[t].call.key} :
                        k \notin DOMAIN containers'[outcome[t].call.c].instances]_vars

C31_Witness ==
    \E t, u \in Threads :
        /\ outcome[u].call = [op |-> "Get", c |-> 1, key |-> B]
        /\ outcome[u].kind = "panic"
        /\ outcome[u].val[1] = "factory failed"
        /\ outcome[t].call = [op |-> "Get", c |-> 1, key |-> A]
        /\ outcome[t].kind = "value"
        /\ outcome[t].n > outcome[u].n
        /\ outcome[u].n \notin outcome[t].during
        /\ containers[1].lock = NoThread
        /\ B \notin DOMAIN containers[1].instances

-----------------------------------------------------------------------------
(* SpecBool: the literals of the boolean tags.  On a new builder a is      *)
(* registered with a shared or a private tag of some literal, written in   *)
(* the key ("a #shared=true") or given in the map of tags.                 *)

Literals ==
    {<<>>,
     <<"t", "r", "u", "e">>, <<"1">>, <<"f", "a", "l", "s", "e">>, <<"0">>,
     <<"t">>, <<"T">>, <<"T", "R", "U", "E">>, <<"T", "r", "u", "e">>,
     <<"f">>, <<"F">>, <<"F", "A", "L", "S", "E">>, <<"F", "a", "l", "s", "e">>,
     <<"o", "n">>, <<"o", "f", "f">>, <<"2">>}

BoolCalls ==
    {SetFactoryCall(A, Func(A, <<>>))}
    \cup {SetFactoryCall(A \o <<" ", "#">> \o TagShared \o <<"=">> \o lit, Func(A, <<>>)) :
            lit \in Literals \ {<<>>}}
    \cup {SetFactoryCall(KeyWith(A, TagShared), Func(A, <<>>))}
    \cup {[SetValueCall(A, "v") EXCEPT !.tags = <<TagPrivate :> lit>>] : lit \in Literals}

InitBool == NewContainerBuilder /\ NoCallYet /\ definitions = EmptyMap

\* One goroutine registers: what a literal parses to does not depend on the
\* calls of another.
NextBool ==
    \/ BuilderCallBy(1, BoolCalls)
    \/ GuardStep(1)
    \/ WriteStep(1)

SpecBool == InitBool /\ [][NextBool]_vars

\* The tags a call gives its definition, in the key or in the map.
GivenTags(call) == ExplicitTags(call) @@ KeyTags(call)

\* What a setter call that has ended says of one boolean tag: the flag of the
\* definition it returned, or "error" when it panicked on the tag.
Verdict(t, tag) ==
    IF outcome[t].kind = "panic"
    THEN IF /\ tag \in DOMAIN GivenTags(outcome[t].call)
            /\ outcome[t].val = <<"not a valid boolean", tag,
                                  GivenTags(outcome[t].call)[tag], A>>
         THEN "error" ELSE "other"
    ELSE IF tag = TagShared
    THEN (IF outcome[t].val.Shared THEN "true" ELSE "false")
    ELSE (IF outcome[t].val.Private THEN "true" ELSE "false")

Expect(t, tag, true, false) ==
    Verdict(t, tag) =
        IF tag \notin DOMAIN GivenTags(outcome[t].call) THEN "false"
        ELSE IF GivenTags(outcome[t].call)[tag] \in true \cup {<<>>} THEN "true"
        ELSE IF GivenTags(outcome[t].call)[tag] \in false THEN "false"
        ELSE "error"

\* A setter call has ended and says something of the tag: it returned, or it
\* panicked and the tag is the one it was given.
Ended(t, tag) ==
    \/ outcome[t].kind = "value"
    \/ outcome[t].kind = "panic" /\ tag \in DOMAIN GivenTags(outcome[t].call)

\* C36 as stated: an absent tag gives false, an empty value true, "true" and
\* "1" true, "false" and "0" false, and every other literal is an error that
\* names the tag and the value.
C36_FourLiterals ==
    \A t \in Threads : \A tag \in {TagShared, TagPrivate} :
        Ended(t, tag) => Expect(t, tag, {<<"t", "r", "u", "e">>, <<"1">>},
                                   {<<"f", "a", "l", "s", "e">>, <<"0">>})

\* C36: an absent tag gives false, an empty value true; "1", "t", "T", "true",
\* "TRUE" and "True" give true; "0", "f", "F", "false", "FALSE" and "False"
\* give false; every other literal is an error that names the tag and the
\* value.
C36_ParseBoolLiterals ==
    \A t \in Threads : \A tag \in {TagShared, TagPrivate} :
        Ended(t, tag) =>
            Expect(t, tag,
                   {<<"1">>, <<"t">>, <<"T">>, <<"t", "r", "u", "e">>,
                    <<"T", "R", "U", "E">>, <<"T", "r", "u", "e">>},
                   {<<"0">>, <<"f">>, <<"F">>, <<"f", "a", "l", "s", "e">>,
                    <<"F", "A", "L", "S", "E">>, <<"F", "a", "l", "s", "e">>})

\* SetFactory("a #shared=T", f) has returned a shared definition, after a
\* call that gave a another literal.
C36_Witness ==
    /\ outcome[1].kind = "value"
    /\ outcome[1].n > 1
    /\ outcome[1].call.op = "SetFactory"
    /\ GivenTags(outcome[1].call) = (TagShared :> <<"T">>)
    /\ outcome[1].val.Shared
    /\ definitions[A].Shared
    /\ definitions[A].Tags[TagShared] = <<"T">>

-----------------------------------------------------------------------------
(* SpecInvalid: setter calls whose tags fail validation.  On a new builder *)
(* goroutines register a, and call setters for a with a bad boolean, a bad *)
(* priority or two kind tags, directly or as a binding of SetAll           *)
(* ("dummy #priority=abc", "dummy #private=off", "dummy #factory #value"). *)

Binding(key, id) ==
    [Key |-> key, Target |-> [type |-> "func", val |-> Func(id, <<>>)], Tags |-> EmptyMap]

ValidCalls == {SetFactoryCall(KeyWith(A, TagShared), Func(A, <<>>))}

InvalidCalls ==
    {SetFactoryCall(A \o <<" ", "#">> \o TagShared \o <<"=", "o", "n">>, Func(Again, <<>>)),
     SetValueCall(A \o <<" ", "#">> \o TagPriority \o <<"=", "a", "b", "c">>, "v"),
     SetFactoryCall(KeyWith(A, TagValue), Func(Again, <<>>)),
     SetAllCall(<<Binding(A \o <<" ", "#">> \o TagPrivate \o <<"=", "o", "f", "f">>, Again)>>),
     SetAllCall(<<Binding(B, B), Binding(KeyWith(KeyWith(A, TagFactory), TagValue), Again)>>)}

ValidationErrors ==
    {"not a valid boolean", "not a valid number", "can't be used simultaneously"}

InitInvalid == NewContainerBuilder /\ NoCallYet /\ definitions = EmptyMap

NextInvalid ==
    \E t \in Threads :
        \/ BuilderCallBy(t, ValidCalls \cup InvalidCalls)
        \/ SetAllStep(t)
        \/ GuardStep(t)
        \/ WriteStep(t)

SpecInvalid == InitInvalid /\ [][NextInvalid]_vars

\* C37: a setter call for a whose tags fail validation ends with the panic of
\* the validation error, for the key a; no step of it stores or replaces a
\* definition under a, so GetDefinition(a) returns what it returned before;
\* and a call of one setter leaves the whole registry as it was (a SetAll
\* has stored the bindings before the one that fails).
C37_InvalidTagsStoreNothing ==
    /\ [](\A t \in Threads :
            (outcome[t].call \in InvalidCalls /\ outcome[t].kind # "running")
               => /\ outcome[t].kind = "panic"
                  /\ outcome[t].val[1] \in ValidationErrors
                  /\ outcome[t].val[Len(outcome[t].val)] = A)
    /\ [][\A t \in Threads :
            (outcome'[t].call \in InvalidCalls /\ (Calls(t) \/ stack'[t] # stack[t]))
               => /\ GetDefinition(definitions', A) = GetDefinition(definitions, A)
                  /\ outcome'[t].call.op # "SetAll" => definitions' = definitions]_vars

\* SetFactory("a #shared=on", f) has panicked on the shared tag and the
\* registry holds the definition of a that an earlier call stored.
C37_Witness ==
    \E t \in Threads :
        /\ outcome[t].call.op = "SetFactory"
        /\ outcome[t].call \in InvalidCalls
        /\ outcome[t].kind = "panic"
        /\ outcome[t].val = <<"not a valid boolean", TagShared, <<"o", "n">>, A>>
        /\ A \in DOMAIN definitions
        /\ definitions[A].Factory = Func(A, <<>>)
        /\ definitions[A].Shared

-----------------------------------------------------------------------------
(* SpecParse: parseKey on raw keys.  The first setter call is given a raw  *)
(* key, any string of at most MaxKeyLen characters of KeyChars; the calls  *)
(* after it are given the bare key the registry holds.                     *)

MaxKeyLen == 4

\* A letter, the space TrimSpace removes, and the two separators of keyRex.
KeyChars == {"a", " ", "#", "="}

RawKeys == UNION {[1 .. n -> KeyChars] : n \in 0 .. MaxKeyLen}

ParseCalls ==
    IF definitions = EmptyMap
    THEN {SetFactoryCall(raw, Func(A, <<>>)) : raw \in RawKeys}
    ELSE {SetValueCall(k, "v") : k \in DOMAIN definitions}

InitParse == NewContainerBuilder /\ NoCallYet /\ definitions = EmptyMap

\* One goroutine registers: what a key parses to does not depend on the
\* calls of another.
NextParse ==
    \/ BuilderCallBy(1, ParseCalls)
    \/ GuardStep(1)
    \/ WriteStep(1)

SpecParse == InitParse /\ [][NextParse]_vars

\* C38: the bare key parseKey returns for a raw key parses to itself with no
\* tag: every key the registry holds does, a setter that returned stored its
\* definition under the bare key of the key it was given, and a setter given
\* a bare key of the registry replaces that entry, with no tag but its own.
C38_BareKeyParsesToItself ==
    /\ [](\A k \in DOMAIN definitions : parseKey(k) = [key |-> k, tags |-> EmptyMap])
    /\ [](\A t \in Threads :
            (outcome[t].call.op \in {"SetFactory", "SetValue"} /\ outcome[t].kind = "value")
               => LET bare == parseKey(outcome[t].call.key).key
                  IN  /\ DOMAIN definitions = {bare}
                      /\ parseKey(bare) = [key |-> bare, tags |-> EmptyMap])
    /\ [][\A t \in Threads :
            (/\ outcome[t].call.op = "SetValue"
             /\ outcome[t].kind = "running"
             /\ outcome'[t].kind # "running")
               => /\ outcome'[t].kind = "value"
                  /\ DOMAIN definitions' = DOMAIN definitions
                  /\ definitions'[outcome[t].call.key].Tags = (TagValue :> <<>>)]_vars

\* SetFactory(" a=#", f) has stored its definition under "a=", and a
\* SetValue("a=", v) after it has replaced that definition.
C38_Witness ==
    /\ SetFactoryCall(<<" ", "a", "=", "#">>, Func(A, <<>>)) \in history.calls
    /\ outcome[1].call = SetValueCall(<<"a", "=">>, "v")
    /\ outcome[1].kind = "value"
    /\ DOMAIN definitions = {<<"a", "=">>}
    /\ definitions[<<"a", "=">>].Kind = TagValue

====
